---- MODULE Spec2Model ----
(***************************************************************************)
(* Real-time event-distribution pipeline of greenfield-advisor:            *)
(*   - notification-service: WebSocketManager registry, the WebSocket      *)
(*     endpoint that admits subscribers, the RabbitMQ fan-out consumer;    *)
(*   - api-gateway: WebSocket rate limiter and the WebSocket tunnel, the   *)
(*     HTTP reverse proxy;                                                 *)
(*   - iot-gateway: the MQTT to RabbitMQ ingestion bridge.                 *)
(* asyncio tasks interleave only at await points, so every action below is *)
(* one run of a coroutine from one await to the next.                      *)
(***************************************************************************)
EXTENDS Integers, Sequences, FiniteSets, TLC

\* ------------------------------------------------------------------------
\* Bounds
\* ------------------------------------------------------------------------
NConns == 2                      \* WebSocket objects of the notification service
Conns == 1..NConns
Fields == {"f1", "f2"}           \* field names used as registry keys
NoKey == "<missing>"             \* payload without the field key (or not JSON)
PayloadFields == Fields \cup {"", NoKey}
Handlers == {"reading", "alert"} \* one in-flight handler per consumed queue
TokenKinds == {"valid", "nosub", "expired", "invalid"}
CacheResults == {"raise", "miss", "OK", "FORBIDDEN", "NOT_FOUND", "other"}
HttpResults == {"200", "403", "404", "500", "unreachable"}
None == 0                        \* no connection / no close code

VARIABLES
  ws,            \* notification-service: per WebSocket object, websocket_endpoint state
  connections,   \* WebSocketManager.connections: field -> set of WebSocket
  bc,            \* per consumer handler: the message and send_notification call in progress
  failedDone,    \* history: connections whose send failed in a finished broadcast
  redis,         \* api-gateway: app.state.redis, "client" or "none"
  counter,       \* api-gateway: value of the key ws_ratelimit:<address>, 0 when absent
  ttl,           \* api-gateway: seconds the key has left, 0 when it has no expiry
  admitted,      \* history: attempts that passed the check since the key was created
  gw,            \* api-gateway: per websocket_gateway call, its position and locals
  routes,        \* api-gateway: the route table the process was started with
  web,           \* api-gateway: the gateway() call for one HTTP request
  bridge,        \* iot-gateway: publisher, MQTT session and the message being processed
  broker,        \* RabbitMQ: exchanges, queues, bindings, queued messages, setup position
  ap             \* intelligent-service: the handle_message call, the cache and the alerts

gwVars == <<redis, counter, ttl, admitted, gw>>
fanVars == <<ws, connections, bc, failedDone>>
busVars == <<broker, ap>>
vars == <<ws, connections, bc, failedDone, redis, counter, ttl, admitted, gw, routes, web, bridge,
          broker, ap>>

\* ------------------------------------------------------------------------
\* WebSocketManager (notification-service/websocket_manager.py)
\* ------------------------------------------------------------------------
\* the registry without the entry of field
del_entry(conns, field) == [k \in DOMAIN conns \ {field} |-> conns[k]]

\* connect: add websocket to the set of field, creating the set if absent
connect(conns, websocket, field) ==
  [k \in DOMAIN conns \cup {field} |->
     IF k = field
     THEN (IF field \in DOMAIN conns THEN conns[field] ELSE {}) \cup {websocket}
     ELSE conns[k]]

\* (fault) the entry of a field is kept when its last connection leaves
disconnect_keep_empty(conns, websocket, field) ==
  IF field \in DOMAIN conns
  THEN [conns EXCEPT ![field] = conns[field] \ {websocket}]
  ELSE conns

\* disconnect: discard websocket, delete the entry when the set becomes empty
disconnect(conns, websocket, field) ==
  IF field \in DOMAIN conns
  THEN IF conns[field] \ {websocket} = {}
       THEN del_entry(conns, field)
       ELSE [conns EXCEPT ![field] = conns[field] \ {websocket}]
  ELSE conns

\* (fault) the snapshot takes the subscribers of every field
snapshot_all(conns, field) == UNION {conns[f] : f \in DOMAIN conns}

\* send_notification, first locked section: self.connections.get(field, set()).copy()
snapshot(conns, field) == IF field \in DOMAIN conns THEN conns[field] ELSE {}

\* send_notification, the for loop of the second locked section.  The test
\* `if field in self.connections` is made once, before the loop; inside the
\* loop self.connections[field] is subscripted again after a possible del,
\* which raises KeyError.
RECURSIVE prune_loop(_, _, _)
prune_loop(conns, field, dead) ==
  IF dead = <<>> THEN [conns |-> conns, raised |-> FALSE]
  ELSE IF field \notin DOMAIN conns THEN [conns |-> conns, raised |-> TRUE]
  ELSE prune_loop(disconnect(conns, Head(dead), field), field, Tail(dead))

\* (fault) the failed connections are collected but never removed
prune_none(conns, field, dead) == [conns |-> conns, raised |-> FALSE]

\* send_notification, second locked section
prune(conns, field, dead) ==
  IF dead /= <<>> /\ field \in DOMAIN conns
  THEN prune_loop(conns, field, dead)
  ELSE [conns |-> conns, raised |-> FALSE]

\* (fault) the lock taken for the copy is kept until send_notification returns
locked_throughout(section) == TRUE

\* send_notification: the sections of the call that run inside
\* `async with self.lock`: the copy of the set and the removal of the failed
\* connections, not the loop of send_text
locked(section) == section \in {"copy", "prune"}

\* asyncio.Lock: `async with self.lock` goes on only when no coroutine holds it
lock_free == \A h \in DOMAIN bc : ~bc[h].lock

\* the connections that are registered for field (used by the history variables)
RegisteredFor(field) == IF field \in DOMAIN connections THEN connections[field] ELSE {}
Registered == UNION {connections[f] : f \in DOMAIN connections}

SeqToSet(s) == {s[i] : i \in 1..Len(s)}

\* ------------------------------------------------------------------------
\* websocket_endpoint (notification-service/main.py)
\* ------------------------------------------------------------------------
NewWs == [pc |-> "new", field |-> "", tok |-> "", sock |-> "up",
          admit |-> "none", code |-> None, wasReg |-> FALSE, basis |-> "none",
          inbox |-> <<>>]

\* (fault) an expired token is decoded like a valid one
decode_ignoring_expiry(tok) ==
  CASE tok \in {"valid", "expired"} -> None
    [] tok = "invalid" -> 1008
    [] OTHER           -> 1011

\* decode_access_token and payload["sub"]: the close code of the refusal, None if decoded
decode_access_token(tok) ==
  CASE tok = "valid"   -> None
    [] tok = "expired" -> 1008
    [] tok = "invalid" -> 1008
    [] OTHER           -> 1011      \* payload["sub"] raises KeyError: generic except

\* check_field_permission on a cached decision: "allow", a close code, or
\* "ask" when the ownership endpoint has to be consulted
cached_decision(cached) ==
  CASE cached = "OK"        -> "allow"
    [] cached = "FORBIDDEN" -> "1008"
    [] cached = "NOT_FOUND" -> "1008"
    [] cached = "raise"     -> "1011"   \* redis.get raises: generic except
    [] OTHER                -> "ask"

\* check_field_permission on the answer of the ownership endpoint
fresh_decision(http, setOk) ==
  CASE http = "unreachable" -> "1011"
    [] http = "500"         -> "1011"
    [] ~setOk               -> "1011"   \* redis.set raises: generic except
    [] http = "200"         -> "allow"
    [] OTHER                -> "1008"   \* 403 and 404

CodeOf(decision) == IF decision = "1008" THEN 1008 ELSE 1011

\* websocket.close(code, reason); return
Refused(w, code) == [NewWs EXCEPT !.pc = "closed", !.code = code, !.sock = "down"]

\* what made check_field_permission leave without a decision to allow, before
\* the ownership endpoint was called: the cached decision, or redis.get raising
cached_basis(cached) == IF cached = "raise" THEN "cache_read" ELSE "cached"

\* the same after the call: the answer of the endpoint (or its failure), or
\* redis.set raising after a 200
fresh_basis(http) == IF http = "200" THEN "cache_write" ELSE "endpoint"

\* websocket.accept(), decode_access_token, first half of check_field_permission
\* (the cached decision).  cached is what redis.get gives for the key.
WsHandshake(c, field, tok, cached) ==
  /\ ws[c].pc = "new"
  /\ IF decode_access_token(tok) /= None
     THEN /\ ws' = [ws EXCEPT ![c] = [Refused(@, decode_access_token(tok))
                                         EXCEPT !.basis = "token"]]
          /\ UNCHANGED connections
     ELSE CASE cached_decision(cached) = "allow" ->
                 /\ lock_free
                 /\ ws' = [ws EXCEPT ![c] = [@ EXCEPT !.pc = "open", !.field = field,
                                  !.tok = tok, !.admit = cached, !.wasReg = TRUE]]
                 /\ connections' = connect(connections, c, field)
            [] cached_decision(cached) = "ask" ->
                 /\ ws' = [ws EXCEPT ![c] = [@ EXCEPT !.pc = "validating",
                                  !.field = field, !.tok = tok]]
                 /\ UNCHANGED connections
            [] OTHER ->
                 /\ ws' = [ws EXCEPT ![c] = [Refused(@, CodeOf(cached_decision(cached)))
                                                EXCEPT !.basis = cached_basis(cached)]]
                 /\ UNCHANGED connections
  /\ UNCHANGED <<bc, failedDone, gwVars, routes, web, bridge, busVars>>

\* check_field_permission, second half: the ownership endpoint and redis.set,
\* then websocket_manager.connect when the answer was allow.
WsValidate(c, http, setOk) ==
  /\ ws[c].pc = "validating"
  /\ IF fresh_decision(http, setOk) = "allow"
     THEN /\ lock_free
          /\ ws' = [ws EXCEPT ![c] = [@ EXCEPT !.pc = "open", !.admit = http,
                                               !.wasReg = TRUE]]
          /\ connections' = connect(connections, c, ws[c].field)
     ELSE /\ ws' = [ws EXCEPT ![c] = [Refused(@, CodeOf(fresh_decision(http, setOk)))
                                         EXCEPT !.basis = fresh_basis(http)]]
          /\ UNCHANGED connections
  /\ UNCHANGED <<bc, failedDone, gwVars, routes, web, bridge, busVars>>

\* the client goes away (network event seen by the server socket)
ClientDrop(c) ==
  /\ ws[c].pc \in {"validating", "open"}
  /\ ws[c].sock = "up"
  /\ ws' = [ws EXCEPT ![c].sock = "down"]
  /\ UNCHANGED <<connections, bc, failedDone, gwVars, routes, web, bridge, busVars>>

\* the receive loop ends: WebSocketDisconnect, or any other exception
WsReceiveEnds(c, how) ==
  /\ ws[c].pc = "open"
  /\ how = "disconnect" => ws[c].sock = "down"
  /\ lock_free
  /\ ws' = [ws EXCEPT ![c] = [NewWs EXCEPT !.pc = "closed", !.sock = "down",
                                           !.wasReg = TRUE]]
  /\ connections' = disconnect(connections, c, ws[c].field)
  /\ UNCHANGED <<bc, failedDone, gwVars, routes, web, bridge, busVars>>

\* ------------------------------------------------------------------------
\* RabbitMQNotificationConsumer (notification-service/consumer.py)
\* ------------------------------------------------------------------------
IdleBc == [pc |-> "idle", payload |-> <<>>, envelope |-> <<>>, field |-> "",
           websockets |-> {}, snapAt |-> {}, todo |-> {}, cur |-> None,
           dead |-> <<>>, attempted |-> {}, result |-> "none", lock |-> FALSE]

\* message.process(): the message is acknowledged when the handler returns and
\* rejected when it raises
Settled(raised) == [IdleBc EXCEPT !.result = IF raised THEN "reject" ELSE "ack"]

\* the key of the payload that names the field
FieldKey(h) == IF h = "reading" THEN "field_id" ELSE "field"

\* the payload of a broker message, as far as the consumer reads it
Payload(h, pf) == IF pf = NoKey THEN [other |-> "x"]
                  ELSE IF h = "reading" THEN [field_id |-> pf] ELSE [field |-> pf]

\* (fault) every envelope is labelled as a reading
Envelope_untyped(h, payload) == [type |-> "reading", data |-> payload]

\* envelope = {"type": ..., "data": payload}
Envelope(h, payload) == [type |-> h, data |-> payload]

\* field = payload["field_id"] (handle_reading_message), payload["field"] (handle_alert_message)
PayloadField(h, payload) ==
  IF FieldKey(h) \in DOMAIN payload THEN payload[FieldKey(h)] ELSE NoKey

\* the broker delivers a message of the queue of h to its callback
Deliver(h, pf) ==
  /\ bc[h].pc = "idle"
  /\ bc' = [bc EXCEPT ![h] = [IdleBc EXCEPT !.pc = "got", !.payload = Payload(h, pf)]]
  /\ UNCHANGED <<ws, connections, failedDone, gwVars, routes, web, bridge, busVars>>

\* handle_reading_message / handle_alert_message up to the first send_text
HandleMessage(h) ==
  /\ bc[h].pc = "got"
  /\ PayloadField(h, bc[h].payload) \notin {NoKey, ""} => lock_free
  /\ LET payload == bc[h].payload
         field == PayloadField(h, payload)
         websockets == snapshot(connections, field)
     IN CASE field = NoKey ->          \* KeyError inside message.process(): rejected
               bc' = [bc EXCEPT ![h] = Settled(TRUE)]
          [] field = "" ->             \* `if field:` is false: nothing is sent
               bc' = [bc EXCEPT ![h] = Settled(FALSE)]
          [] websockets = {} ->        \* `if not websockets: return`
               bc' = [bc EXCEPT ![h] = Settled(FALSE)]
          [] OTHER ->
               \E c \in websockets :
                    bc' = [bc EXCEPT ![h] =
                             [pc |-> "sending", payload |-> payload,
                              envelope |-> Envelope(h, payload),
                              field |-> field, websockets |-> websockets,
                              snapAt |-> RegisteredFor(field),
                              todo |-> websockets \ {c}, cur |-> c, dead |-> <<>>,
                              attempted |-> {c}, result |-> "none",
                              lock |-> locked("send")]]
  /\ UNCHANGED <<ws, connections, failedDone, gwVars, routes, web, bridge, busVars>>

\* what a client has seen once send_text of an envelope of this type
\* returned: the types of envelope, in the order of their first arrival
noted(inbox, type) == IF type \in SeqToSet(inbox) THEN inbox ELSE Append(inbox, type)

\* websocket.send_text returns or raises; the loop goes on to the next
\* connection, or the call ends with the pruning pass.
SendReturns(h) ==
  /\ bc[h].pc = "sending"
  /\ LET b == bc[h]
         failed == ws[b.cur].sock = "down"
         dead == IF failed THEN Append(b.dead, b.cur) ELSE b.dead
     IN /\ ws' = IF failed THEN ws
                 ELSE [ws EXCEPT ![b.cur].inbox = noted(@, b.envelope.type)]
        /\ IF b.todo /= {}
           THEN /\ \E c \in b.todo :
                     bc' = [bc EXCEPT ![h] = [b EXCEPT !.dead = dead, !.cur = c,
                                                !.todo = b.todo \ {c},
                                                !.attempted = b.attempted \cup {c}]]
                /\ UNCHANGED <<connections, failedDone>>
           ELSE LET p == prune(connections, b.field, dead)
                IN /\ dead /= <<>> => \A g \in DOMAIN bc \ {h} : ~bc[g].lock
                   /\ connections' = p.conns
                   /\ bc' = [bc EXCEPT ![h] = Settled(p.raised)]
                   /\ failedDone' = failedDone \cup SeqToSet(dead)
  /\ UNCHANGED <<gwVars, routes, web, bridge, busVars>>

\* ------------------------------------------------------------------------
\* api-gateway: routing and token validation (config.py, auth.py, main.py)
\* ------------------------------------------------------------------------
StartsWith(s, p) == Len(p) <= Len(s) /\ SubSeq(s, 1, Len(p)) = p

P_login == <<"/", "l", "o", "g", "i", "n">>
P_register == <<"/", "r", "e", "g", "i", "s", "t", "e", "r">>
P_users == <<"/", "u", "s", "e", "r", "s">>
P_fields == <<"/", "f", "i", "e", "l", "d", "s">>
P_sensor_types == <<"/", "s", "e", "n", "s", "o", "r", "-", "t", "y", "p", "e", "s">>
P_compute_ndvi == <<"/", "c", "o", "m", "p", "u", "t", "e", "-", "n", "d", "v", "i">>
P_rules == <<"/", "r", "u", "l", "e", "s">>
P_archive_alerts == <<"/", "a", "r", "c", "h", "i", "v", "e", "-", "a", "l", "e", "r", "t", "s">>
P_alerts == <<"/", "a", "l", "e", "r", "t", "s">>
P_ai_prediction == <<"/", "a", "i", "-", "p", "r", "e", "d", "i", "c", "t", "i", "o", "n">>
P_ws_notifications == <<"/", "w", "s", "/", "n", "o", "t", "i", "f", "i", "c", "a", "t", "i", "o", "n", "s">>

\* ROUTE_MAP of config.py, as pairs <<prefix, service>>
ROUTE_MAP ==
  {<<P_login, "auth">>,
   <<P_register, "auth">>,
   <<P_users, "auth">>,
   <<P_fields, "field">>,
   <<P_sensor_types, "field">>,
   <<P_compute_ndvi, "image">>,
   <<P_rules, "intelligent">>,
   <<P_archive_alerts, "intelligent">>,
   <<P_alerts, "intelligent">>,
   <<P_ai_prediction, "intelligent">>,
   <<P_ws_notifications, "notifications">>}

P_internal == <<"/", "i", "n", "t", "e", "r", "n", "a", "l">>

\* (fault) a route matches any path that begins with its characters
prefix_match_loose(path, prefix) == StartsWith(path, prefix)

\* path == prefix or path.startswith(f"{prefix}/")
prefix_match(path, prefix) == path = prefix \/ StartsWith(path, prefix \o <<"/">>)

\* resolve_service: the service of the longest matching prefix, "none" without a match
resolve_service(path) ==
  LET matches == {r \in routes : prefix_match(path, r[1])}
  IN IF matches = {} THEN "none"
     ELSE (CHOOSE r \in matches : \A q \in matches : Len(q[1]) <= Len(r[1]))[2]

\* str.lower() on the words that occur as token type
lower(word) == IF word \in {"Bearer", "BEARER", "bearer"} THEN "bearer" ELSE word

\* jwt.decode(token, PUBLIC_KEY, algorithms=[ALGORITHM]) on one word
jwt_decode(word) ==
  CASE word = "valid"   -> "ok"
    [] word = "expired" -> "expired"
    [] OTHER            -> "invalid"

\* (fault) the expiry of the token is not checked
verify_ignoring_expiry(auth_header) ==
  /\ Len(auth_header) = 2
  /\ lower(auth_header[1]) = "bearer"
  /\ jwt_decode(auth_header[2]) \in {"ok", "expired"}

\* verify_jwt_token: TRUE when it returns, FALSE when it raises HTTPException(401).
\* auth_header is the list auth_header.split() of the words of the header.
verify_jwt_token(auth_header) ==
  /\ auth_header /= <<>>
  /\ Len(auth_header) = 2                       \* token_type, token = auth_header.split()
  /\ lower(auth_header[1]) = "bearer"    \* token_type.lower() == "bearer"
  /\ jwt_decode(auth_header[2]) = "ok"

\* the detail of the HTTPException(401) verify_jwt_token raises; a wrong number
\* of words and a wrong token type end in `except Exception`
verify_detail(auth_header) ==
  IF auth_header = <<>> THEN "Authorization header mancante."
  ELSE IF Len(auth_header) /= 2 \/ lower(auth_header[1]) /= "bearer"
       THEN "Errore nella verifica del token di accesso."
  ELSE IF jwt_decode(auth_header[2]) = "expired" THEN "Token di accesso scaduto."
  ELSE "Token di accesso non valido."

\* f"Bearer {token}", as words
Bearer(token) == <<"Bearer">> \o token

\* ------------------------------------------------------------------------
\* api-gateway: websocket_gateway (main.py)
\* ------------------------------------------------------------------------
LIMIT == 20                      \* check_ws_rate_limit(..., limit=20, ...)
WINDOW == 60                     \* check_ws_rate_limit(..., window=60)
NAttempts == 2                   \* concurrent websocket_gateway calls
MaxCount == 22                   \* attempts counted on one key
TickStep == 20                   \* seconds that pass in one step of the clock
MaxFrames == 2                   \* text frames one peer of a tunnel sends
MaxUpgrades == 3                 \* attempts counted on the key while tunnels are followed
Attempts == 1..NAttempts

WsPaths == {P_ws_notifications, P_ws_notifications \o <<"/", "x">>,
            P_ws_notifications \o <<"x">>, P_internal \o <<"/", "x">>, P_rules, <<"/", "x">>}
\* a token is the list of its words: none when the parameter is missing or empty
WsTokens == {<<>>, <<"valid">>, <<"expired">>, <<"forged">>, <<"va", "lid">>}
WsFields == {"", "f1"}
Requests == [path : WsPaths, token : WsTokens, field : WsFields]
GoodRequest == [path |-> P_ws_notifications, token |-> <<"valid">>, field |-> "f1"]
NoRequest == [path |-> <<>>, token |-> <<>>, field |-> ""]
\* close frames the backend sends: websocket_endpoint refusals and the example of the tests
PeerCloses == {[code |-> 1008, reason |-> "Campo non trovato."], [code |-> 4001, reason |-> "x"]}
NoClose == [code |-> None, reason |-> ""]

IdleGw == [pc |-> "idle", count |-> 0, rl |-> "none", req |-> NoRequest,
           code |-> None, reason |-> "", close |-> NoClose,
           up |-> "none", peer |-> NoClose, client |-> "open",
           tgt |-> "none", cli |-> "none", wake |-> [tgt |-> "none", cli |-> "none"],
           runq |-> <<>>, first |-> "none", everUp |-> FALSE,
           rx |-> [tgt |-> 0, cli |-> 0], data |-> [tgt |-> 0, cli |-> 0],
           tx |-> [tgt |-> <<>>, cli |-> <<>>]]

\* (fault) the comparison with the limit is off by one
over_limit_eq(current_count, limit) == current_count >= limit

\* check_ws_rate_limit: `if current_count > limit`
over_limit(current_count, limit) == current_count > limit

\* raise WebSocketException(code=1013, reason=e.detail)
RateLimited(g) == [g EXCEPT !.pc = "closed", !.rl = "reject", !.code = 1013,
                            !.reason = "Troppe richieste (riprova piu tardi)."]

\* check_ws_rate_limit returned: await websocket.accept()
Accepted(g, how) == [g EXCEPT !.pc = "accepted", !.rl = how]

\* A new upgrade request: check_ws_rate_limit up to the reply of INCR.
\* Without a client the check returns at once.
RateLimitIncr(h) ==
  /\ gw[h].pc = "idle"
  /\ IF redis = "none"
     THEN /\ gw' = [gw EXCEPT ![h] = Accepted(@, "skip")]
          /\ UNCHANGED <<counter, ttl, admitted>>
     ELSE /\ counter < MaxCount
          /\ counter' = counter + 1
          /\ UNCHANGED ttl
          /\ IF counter' = 1
             THEN /\ gw' = [gw EXCEPT ![h] = [@ EXCEPT !.pc = "expire", !.count = counter']]
                  /\ UNCHANGED admitted
             ELSE IF over_limit(counter', LIMIT)
             THEN /\ gw' = [gw EXCEPT ![h] = RateLimited(@)]
                  /\ UNCHANGED admitted
             ELSE /\ gw' = [gw EXCEPT ![h] = Accepted(@, "pass")]
                  /\ admitted' = admitted + 1
  /\ UNCHANGED <<redis, fanVars, routes, web, bridge, busVars>>

\* redis_client.expire(redis_key, window) for the first attempt, then the comparison
RateLimitExpire(h) ==
  /\ gw[h].pc = "expire"
  /\ ttl' = IF counter > 0 THEN WINDOW ELSE ttl
  /\ IF over_limit(gw[h].count, LIMIT)
     THEN /\ gw' = [gw EXCEPT ![h] = RateLimited([@ EXCEPT !.count = 0])]
          /\ UNCHANGED admitted
     ELSE /\ gw' = [gw EXCEPT ![h] = Accepted([@ EXCEPT !.count = 0], "pass")]
          /\ admitted' = admitted + 1
  /\ UNCHANGED <<redis, counter, fanVars, routes, web, bridge, busVars>>

\* redis_client.incr raises: the exception is not an HTTPException and leaves
\* websocket_gateway
RateLimitIncrFails(h) ==
  /\ gw[h].pc = "idle"
  /\ redis = "client"
  /\ gw' = [gw EXCEPT ![h] = [@ EXCEPT !.pc = "aborted", !.rl = "error"]]
  /\ UNCHANGED <<redis, counter, ttl, admitted, fanVars, routes, web, bridge, busVars>>

\* redis_client.expire raises: same, and the key keeps no expiry
RateLimitExpireFails(h) ==
  /\ gw[h].pc = "expire"
  /\ gw' = [gw EXCEPT ![h] = [@ EXCEPT !.pc = "aborted", !.rl = "error", !.count = 0]]
  /\ UNCHANGED <<redis, counter, ttl, admitted, fanVars, routes, web, bridge, busVars>>

\* time passes; the key is deleted when its expiry is reached
Tick ==
  /\ ttl > 0
  /\ IF ttl > TickStep
     THEN /\ ttl' = ttl - TickStep
          /\ UNCHANGED <<counter, admitted>>
     ELSE /\ ttl' = 0
          /\ counter' = 0
          /\ admitted' = 0
  /\ UNCHANGED <<redis, gw, fanVars, routes, web, bridge, busVars>>

\* (fault) the test of the field parameter is missing
validate_without_field(req) ==
  IF resolve_service(req.path) /= "notifications" THEN "Servizio non supportato per WebSocket."
  ELSE IF StartsWith(req.path, P_internal) THEN "Accesso ai path interni non consentito."
  ELSE IF req.token = <<>> THEN "Token di autorizzazione mancante."
  ELSE IF ~verify_jwt_token(Bearer(req.token)) THEN verify_detail(Bearer(req.token))
  ELSE "ok"

\* the checks between websocket.accept() and websockets.connect(): the reason
\* of the refusal, "ok" when the request goes on
validate(req) ==
  IF resolve_service(req.path) /= "notifications" THEN "Servizio non supportato per WebSocket."
  ELSE IF StartsWith(req.path, P_internal) THEN "Accesso ai path interni non consentito."
  ELSE IF req.token = <<>> THEN "Token di autorizzazione mancante."
  ELSE IF req.field = "" THEN "Parametro 'field' mancante."
  ELSE IF ~verify_jwt_token(Bearer(req.token)) THEN verify_detail(Bearer(req.token))
  ELSE "ok"

\* websocket_gateway from accept() to the call of websockets.connect(target_url)
Validate(h, req) ==
  /\ gw[h].pc = "accepted"
  /\ IF validate(req) = "ok"
     THEN gw' = [gw EXCEPT ![h] = [@ EXCEPT !.pc = "connecting", !.req = req,
                                     !.close = [code |-> 1000, reason |-> "Chiusura normale"]]]
     ELSE gw' = [gw EXCEPT ![h] = [@ EXCEPT !.pc = "closed", !.req = req, !.code = 1008,
                                     !.reason = validate(req)]]
  /\ UNCHANGED <<redis, counter, ttl, admitted, fanVars, routes, web, bridge, busVars>>

\* the ways websockets.connect fails: the handshake is answered with a status
\* that is not 101, or any other exception (refused, timeout, DNS)
ConnectFailures == {"InvalidStatusCode", "Exception"}

\* (fault) the failure falls through to the final close with close_code
connect_failed_normal(g, failure) ==
  [g EXCEPT !.pc = "closed", !.code = g.close.code, !.reason = g.close.reason]

\* the two except branches of the connection: close 1011 and return
connect_failed(g, failure) ==
  [g EXCEPT !.pc = "closed", !.code = 1011,
            !.reason = IF failure = "InvalidStatusCode"
                       THEN "Errore di connessione al servizio di destinazione."
                       ELSE "Errore nella connessione al servizio di destinazione."]

\* websockets.connect fails (InvalidStatusCode or any other exception)
UpstreamConnectFails(h) ==
  /\ gw[h].pc = "connecting"
  /\ \E failure \in ConnectFailures : gw' = [gw EXCEPT ![h] = connect_failed(@, failure)]
  /\ UNCHANGED <<redis, counter, ttl, admitted, fanVars, routes, web, bridge, busVars>>

\* websockets.connect succeeds: both forwarding tasks are created and main
\* waits in asyncio.wait(FIRST_COMPLETED)
UpstreamConnects(h) ==
  /\ gw[h].pc = "connecting"
  /\ gw' = [gw EXCEPT ![h] = [@ EXCEPT !.pc = "relaying", !.up = "open", !.everUp = TRUE,
                                        !.tgt = "recv", !.cli = "recv"]]
  /\ UNCHANGED <<redis, counter, ttl, admitted, fanVars, routes, web, bridge, busVars>>

\* the handler has returned; its slot serves the next request
Recycle(h) ==
  /\ gw[h].pc \in {"closed", "aborted"}
  /\ gw' = [gw EXCEPT ![h] = IdleGw]
  /\ UNCHANGED <<redis, counter, ttl, admitted, fanVars, routes, web, bridge, busVars>>

\* ------------------------------------------------------------------------
\* api-gateway: the relay of websocket_gateway (forward_to_target, forward_to_client)
\* The event loop runs the coroutines that were woken in the order of their
\* wake-ups (runq); a task that is cancelled before it runs gets
\* CancelledError instead of the result it was woken with.
\* ------------------------------------------------------------------------
Enq(q, x) == IF x \in SeqToSet(q) THEN q ELSE Append(q, x)

\* wake task t of g with result w
Wake(g, t, w) == [g EXCEPT !.wake[t] = w, !.runq = Enq(@, t)]

\* The frames of a direction are numbered in the order in which its receive
\* call returns them: g.rx[t] is the number of the last one, g.data[t] the
\* frame the variable `data` of task t holds and g.tx[t] the frames its send
\* call has written.
\* receive_text / recv of task t returns the next frame of its peer
received(g, t) == [g EXCEPT !.rx[t] = @ + 1]

\* (fault) the frame is written twice
written_twice(g, t) == [g EXCEPT !.tx[t] = @ \o <<g.data[t], g.data[t]>>]

\* target_ws.send(data) / websocket.send_text(data) of task t has written data
written(g, t) == [g EXCEPT !.tx[t] = Append(@, g.data[t])]

\* the client sends a text frame while forward_to_target waits in receive_text
ClientFrame(h) ==
  /\ gw[h].pc = "relaying"
  /\ gw[h].client = "open"
  /\ gw[h].tgt = "recv" /\ gw[h].wake.tgt = "none"
  /\ gw[h].rx.tgt < MaxFrames
  /\ gw' = [gw EXCEPT ![h] = Wake(received(@, "tgt"), "tgt", "data")]
  /\ UNCHANGED <<redis, counter, ttl, admitted, fanVars, routes, web, bridge, busVars>>

\* the client closes its connection (or its transport fails)
ClientDisconnects(h) ==
  /\ gw[h].pc = "relaying"
  /\ gw[h].client = "open"
  /\ LET g0 == [gw[h] EXCEPT !.client = "gone",
                             !.first = IF @ = "none" THEN "client" ELSE @]
         g1 == IF g0.tgt = "recv" /\ g0.wake.tgt = "none"
               THEN Wake(g0, "tgt", "closed") ELSE g0
         g2 == IF g1.cli = "send" /\ g1.wake.cli = "none"
               THEN Wake(g1, "cli", "error") ELSE g1
     IN gw' = [gw EXCEPT ![h] = g2]
  /\ UNCHANGED <<redis, counter, ttl, admitted, fanVars, routes, web, bridge, busVars>>

\* the backend sends a frame while forward_to_client waits in recv
BackendFrame(h) ==
  /\ gw[h].pc = "relaying"
  /\ gw[h].up = "open"
  /\ gw[h].cli = "recv" /\ gw[h].wake.cli = "none"
  /\ gw[h].rx.cli < MaxFrames
  /\ gw' = [gw EXCEPT ![h] = Wake(received(@, "cli"), "cli", "data")]
  /\ UNCHANGED <<redis, counter, ttl, admitted, fanVars, routes, web, bridge, busVars>>

\* the backend closes the upstream connection with a close frame
BackendCloses(h, frame) ==
  /\ gw[h].pc = "relaying"
  /\ gw[h].up = "open"
  /\ LET g0 == [gw[h] EXCEPT !.up = "peerclosed", !.peer = frame,
                             !.first = IF @ = "none" THEN "backend" ELSE @]
         g1 == IF g0.cli = "recv" /\ g0.wake.cli = "none"
               THEN Wake(g0, "cli", "closed") ELSE g0
         g2 == IF g1.tgt = "send" /\ g1.wake.tgt = "none"
               THEN Wake(g1, "tgt", "error") ELSE g1
     IN gw' = [gw EXCEPT ![h] = g2]
  /\ UNCHANGED <<redis, counter, ttl, admitted, fanVars, routes, web, bridge, busVars>>

\* a pending target_ws.send / websocket.send_text has written its frame
SendCompletes(h, t) ==
  /\ gw[h].pc = "relaying"
  /\ gw[h][t] = "send" /\ gw[h].wake[t] = "none"
  /\ t = "tgt" => gw[h].up = "open"
  /\ t = "cli" => gw[h].client = "open"
  /\ gw' = [gw EXCEPT ![h] = Wake(written(@, t), t, "sent")]
  /\ UNCHANGED <<redis, counter, ttl, admitted, fanVars, routes, web, bridge, busVars>>

\* the state forward_to_target reaches when it runs with wake-up w
forward_to_target(g, w) ==
  CASE w = "data"   -> IF g.up = "open" THEN "send" ELSE "done"      \* target_ws.send(data)
    [] w = "sent"   -> IF g.client = "open" THEN "recv" ELSE "done"  \* receive_text again
    [] OTHER        -> "done"                                        \* WebSocketDisconnect, Exception

\* the state forward_to_client reaches when it runs with wake-up w
forward_to_client(g, w) ==
  CASE w = "data"   -> IF g.client = "open" THEN "send" ELSE "done"  \* websocket.send_text(data)
    [] w = "sent"   -> IF g.up = "open" THEN "recv" ELSE "done"      \* target_ws.recv() again
    [] OTHER        -> "done"                                        \* ConnectionClosed, Exception

\* forward_to_client, `except ConnectionClosed as e`: close_code, close_reason = e.code, e.reason
close_observed(g, w) ==
  IF w = "closed" \/ (w = "sent" /\ g.up = "peerclosed") THEN g.peer ELSE g.close

\* a task that ends wakes main, which waits for FIRST_COMPLETED
Step(g, t, st) ==
  LET g1 == [g EXCEPT ![t] = st, !.wake[t] = "none", !.runq = Tail(@),
                      !.data[t] = IF g.wake[t] = "data" THEN g.rx[t] ELSE @]
  IN IF st = "done" THEN [g1 EXCEPT !.runq = Enq(@, "main")] ELSE g1

RunTarget(h) ==
  /\ gw[h].pc = "relaying"
  /\ gw[h].runq /= <<>> /\ Head(gw[h].runq) = "tgt"
  /\ gw' = [gw EXCEPT ![h] = Step(@, "tgt", forward_to_target(@, @.wake.tgt))]
  /\ UNCHANGED <<redis, counter, ttl, admitted, fanVars, routes, web, bridge, busVars>>

RunClient(h) ==
  /\ gw[h].pc = "relaying"
  /\ gw[h].runq /= <<>> /\ Head(gw[h].runq) = "cli"
  /\ gw' = [gw EXCEPT ![h] =
              Step([@ EXCEPT !.close = close_observed(gw[h], gw[h].wake.cli)],
                   "cli", forward_to_client(@, @.wake.cli))]
  /\ UNCHANGED <<redis, counter, ttl, admitted, fanVars, routes, web, bridge, busVars>>

\* (fault) the pending task is left running
cancel_none(st) == st

\* task.cancel() on a pending task
cancel(st) == IF st \in {"recv", "send"} THEN "cancelled" ELSE st

\* websocket.close(code=close_code, reason=close_reason)
close_with(g) == g.close

\* main resumes after asyncio.wait: cancels the pending task, leaves
\* `async with websockets.connect` (which closes the upstream connection) and
\* closes the client connection
RunMain(h) ==
  /\ gw[h].pc = "relaying"
  /\ gw[h].runq /= <<>> /\ Head(gw[h].runq) = "main"
  /\ gw' = [gw EXCEPT ![h] = [@ EXCEPT !.pc = "closed",
                                        !.tgt = cancel(@), !.cli = cancel(@),
                                        !.wake = [tgt |-> "none", cli |-> "none"],
                                        !.runq = <<>>, !.up = "closed",
                                        !.code = close_with(gw[h]).code,
                                        !.reason = close_with(gw[h]).reason]]
  /\ UNCHANGED <<redis, counter, ttl, admitted, fanVars, routes, web, bridge, busVars>>

\* ------------------------------------------------------------------------
\* api-gateway: gateway() and proxy_request (main.py, proxy.py)
\* ------------------------------------------------------------------------
P_ws == <<"/", "w", "s">>
PUBLIC_PATHS == {P_login, P_register}

\* header names as the backend writes them, and str.lower() on them
ResponseHeaderNames == {"Content-Type", "Content-Encoding", "transfer-encoding", "Connection"}
lower_name(name) ==
  CASE name = "Content-Type"     -> "content-type"
    [] name = "Content-Encoding" -> "content-encoding"
    [] name = "Connection"       -> "connection"
    [] OTHER                     -> name

NoUpstream == [service |-> "none", path |-> <<>>, method |-> "", headers |-> {},
               params |-> "", content |-> ""]
NoResponse == [status |-> None, headers |-> {}, content |-> ""]
NoHttpRequest == [method |-> "", path |-> <<>>, auth |-> <<>>, headers |-> {},
                  params |-> "", content |-> ""]
IdleWeb == [pc |-> "idle", req |-> NoHttpRequest, limited |-> FALSE, service |-> "none",
            up |-> NoUpstream, backend |-> NoResponse, resp |-> NoResponse]

\* the requests of the model
HttpPaths == {P_login, P_register, P_login \o <<"/", "x">>, P_login \o <<"x">>,
              P_fields, P_rules, P_ws_notifications, P_ws \o <<"x">>,
              P_internal, P_internal \o <<"/", "x">>, <<"/", "x">>}
\* request.headers.get("Authorization").split(): none, the three spellings of
\* the type, an expired and a forged token, another type, one word, three words
AuthHeaders == {<<>>, <<"Bearer", "valid">>, <<"bearer", "valid">>, <<"BEARER", "valid">>,
                <<"Bearer", "expired">>, <<"Bearer", "forged">>, <<"Basic", "valid">>,
                <<"Bearer">>, <<"Bearer", "valid", "x">>}
RequestHeaders == {<<"host", "gateway">>, <<"content-length", "4">>, <<"accept", "*/*">>}
AuthRequests == [method : {"GET"}, path : HttpPaths, auth : AuthHeaders, headers : {{}},
                 params : {""}, content : {""}]
ProxyRequests == [method : {"GET", "POST"}, path : {P_fields}, auth : {<<"Bearer", "valid">>},
                  headers : SUBSET RequestHeaders, params : {"", "a=1"},
                  content : {"", "body"}]
HttpRequests == AuthRequests \cup ProxyRequests
Responses == [status : {200, 404},
              headers : SUBSET {<<name, "v">> : name \in ResponseHeaderNames},
              content : {"", "data"}]
\* route tables: config.py, and config.py with a route under the reserved
\* prefix or with a route nested in another
RouteTables ==
  {ROUTE_MAP,
   ROUTE_MAP \cup {<<P_internal, "notifications">>},
   ROUTE_MAP \cup {<<P_internal, "field">>, <<P_login \o <<"/", "x">>, "field">>}}

\* request.headers: the pairs of the request, the Authorization header among them
request_headers(req) ==
  req.headers \cup (IF req.auth = <<>> THEN {} ELSE {<<"authorization", req.auth>>})

\* (fault) the reserved prefix is not tested
gateway_without_internal(path, auth_header) ==
  IF StartsWith(path, P_ws) THEN 400
  ELSE IF resolve_service(path) = "none" THEN 404
  ELSE IF path \notin PUBLIC_PATHS /\ ~verify_jwt_token(auth_header) THEN 401
  ELSE 200

\* (fault) every path of a public route is public
gateway_public_prefix(path, auth_header) ==
  IF StartsWith(path, P_ws) THEN 400
  ELSE IF resolve_service(path) = "none" THEN 404
  ELSE IF StartsWith(path, P_internal) THEN 403
  ELSE IF (\A p \in PUBLIC_PATHS : ~prefix_match(path, p)) /\ ~verify_jwt_token(auth_header) THEN 401
  ELSE 200

\* gateway(): the status of the HTTPException it raises, 200 when it goes on
\* to proxy_request
gateway(path, auth_header) ==
  IF StartsWith(path, P_ws) THEN 400
  ELSE IF resolve_service(path) = "none" THEN 404
  ELSE IF StartsWith(path, P_internal) THEN 403
  ELSE IF path \notin PUBLIC_PATHS /\ ~verify_jwt_token(auth_header) THEN 401
  ELSE 200

\* proxy_request, lines 16-18: the copy without host and content-length
stripped_headers(headers) ==
  {p \in headers : p[1] \notin {"host", "content-length"}}

\* proxy_request, line 24: the headers passed to client.request are
\* dict(request.headers), not the stripped copy
forwarded_headers(headers) == headers

\* proxy_request, lines 29-30: resp.headers.items() without the excluded names
relayed_headers(headers) ==
  {<<lower_name(p[1]), p[2]>> : p \in
     {q \in headers : lower_name(q[1]) \notin {"content-encoding", "transfer-encoding", "connection"}}}

\* the request proxy_request sends with client.request
upstream_request(req) ==
  [service |-> resolve_service(req.path), path |-> req.path, method |-> req.method,
   headers |-> forwarded_headers(request_headers(req)),
   params |-> req.params, content |-> req.content]

\* One HTTP request: the RateLimiter dependency, then gateway() up to the
\* await of client.request in proxy_request
HttpRequest(req, limiter) ==
  /\ web.pc = "idle"
  /\ IF limiter = "limited"
     THEN web' = [web EXCEPT !.pc = "responded", !.req = req, !.limited = TRUE,
                             !.resp.status = 429]
     ELSE IF gateway(req.path, req.auth) = 200
     THEN web' = [web EXCEPT !.pc = "proxying", !.req = req,
                             !.service = resolve_service(req.path),
                             !.up = upstream_request(req)]
     ELSE web' = [web EXCEPT !.pc = "responded", !.req = req,
                             !.service = IF StartsWith(req.path, P_ws) THEN "none"
                                         ELSE resolve_service(req.path),
                             !.resp.status = gateway(req.path, req.auth)]
  /\ UNCHANGED <<gwVars, fanVars, routes, bridge, busVars>>

\* the backend answers: Response(content, status_code, headers)
BackendResponds(response) ==
  /\ web.pc = "proxying"
  /\ web' = [web EXCEPT !.pc = "responded", !.backend = response,
                        !.resp = [status |-> response.status,
                                  headers |-> relayed_headers(response.headers),
                                  content |-> response.content]]
  /\ UNCHANGED <<gwVars, fanVars, routes, bridge, busVars>>

\* client.request raises (timeout=10, connection refused): the exception
\* leaves gateway() and the server answers 500
BackendUnreachable ==
  /\ web.pc = "proxying"
  /\ web' = [web EXCEPT !.pc = "responded", !.resp.status = 500]
  /\ UNCHANGED <<gwVars, fanVars, routes, bridge, busVars>>

\* the response is written; the next request
HttpDone ==
  /\ web.pc = "responded"
  /\ web' = IdleWeb
  /\ UNCHANGED <<gwVars, fanVars, routes, bridge, busVars>>

\* ------------------------------------------------------------------------
\* iot-gateway: the ingestion bridge (main.py, publisher.py)
\* A topic is the list mqtt_topic.split('/'). A JSON value is named by its
\* class: "absent" (no such key), "number" (a value that is not text),
\* "blank" (text that strip() empties), "text"; for value: "int", "float",
\* "bool" (true / false), "huge" (an integer beyond the range of float),
\* "text"; for timestamp: "not_iso" (fromisoformat raises), "naive" (no
\* offset), "future", "lenient" (fromisoformat accepts it, the datetime field
\* of SensorReading does not, such as an 'x' between date and time), "aware"
\* (ISO-8601 with offset, not later than now).
\* ------------------------------------------------------------------------
SYSTEM_STATUS_TOPIC == <<"system", "gateway", "status">>
Topics == {SYSTEM_STATUS_TOPIC, <<"sensors", "f1", "s1", "temp">>,
           <<"sensors", "f1", "s1">>, <<"sensors", "f2", "s2", "hum", "x">>}
TextKinds == {"absent", "number", "blank", "text"}
ValueKinds == {"absent", "int", "float", "bool", "huge", "text"}
TimestampKinds == {"absent", "number", "blank", "not_iso", "naive", "future", "lenient", "aware"}
\* payloads that are not a JSON object: undecodable bytes, text that is not
\* JSON, and the JSON values 5, [], "abc", null
OtherPayloadKinds == {"bad_utf8", "bad_json", "json_number", "json_list", "json_text", "json_null"}
\* JSON objects: a well-formed reading with at most MaxDefects of its four
\* fields replaced
MaxDefects == 2
GoodObject == [kind |-> "object", sensor_type |-> "text", value |-> "int",
               unit |-> "text", timestamp |-> "aware"]
Defects(o) == Cardinality({k \in {"sensor_type", "value", "unit", "timestamp"} : o[k] /= GoodObject[k]})
Objects == {o \in [kind : {"object"}, sensor_type : TextKinds, value : ValueKinds,
                   unit : TextKinds, timestamp : TimestampKinds] : Defects(o) <= MaxDefects}
OtherPayloads == [kind : OtherPayloadKinds, sensor_type : {"absent"}, value : {"absent"},
                  unit : {"absent"}, timestamp : {"absent"}]
Payloads == Objects \cup OtherPayloads
Messages == [topic : Topics, retain : BOOLEAN, payload : Payloads]
NoMessage == [topic |-> <<>>, retain |-> FALSE,
              payload |-> [kind |-> "none", sensor_type |-> "absent", value |-> "absent",
                           unit |-> "absent", timestamp |-> "absent"]]

\* json.loads(payload.decode()): the exception it raises, "ok" otherwise
json_loads(payload) ==
  CASE payload.kind = "bad_utf8" -> "UnicodeDecodeError"
    [] payload.kind = "bad_json" -> "JSONDecodeError"
    [] OTHER                     -> "ok"

\* validate_payload(data): the exception it raises, "ok" when it returns.
\* `field in payload` raises TypeError on a number or null, is a membership
\* test on a list and a substring test on text.
validate_payload(payload) ==
  IF payload.kind \in {"json_number", "json_null"} THEN "TypeError"
  ELSE IF payload.kind \in {"json_list", "json_text"} THEN "PayloadValidationError"
  ELSE IF "absent" \in {payload.sensor_type, payload.value, payload.unit, payload.timestamp}
       THEN "PayloadValidationError"
  ELSE IF payload.sensor_type /= "text" THEN "PayloadValidationError"
  ELSE IF payload.unit /= "text" THEN "PayloadValidationError"
  \* isinstance(payload['value'], (int, float)): bool is a subclass of int
  ELSE IF payload.value \notin {"int", "float", "bool", "huge"} THEN "PayloadValidationError"
  ELSE IF payload.timestamp \in {"number", "blank"} THEN "PayloadValidationError"
  ELSE IF payload.timestamp = "not_iso" THEN "PayloadValidationError"
  ELSE IF payload.timestamp = "naive" THEN "PayloadValidationError"
  ELSE IF payload.timestamp = "future" THEN "PayloadValidationError"
  ELSE "ok"

\* SensorReading(...): value: float and timestamp: datetime are converted;
\* TRUE when the construction raises
SensorReading_raises(payload) ==
  payload.value = "huge" \/ payload.timestamp = "lenient"

\* the reading built from the topic and the data
SensorReading(topic, payload) ==
  [sensor_id |-> topic[3], field_id |-> topic[2], sensor_type |-> payload.sensor_type,
   value |-> IF payload.value \in {"int", "bool"} THEN "float" ELSE payload.value,
   unit |-> payload.unit, timestamp |-> payload.timestamp]

NoReading == [sensor_id |-> "", field_id |-> "", sensor_type |-> "absent",
              value |-> "absent", unit |-> "absent", timestamp |-> "absent"]

\* mqtt_to_sensor_reading: r is "none" when it returns None, "raise" when it
\* raises ValueError, "reading" when it returns a SensorReading
mqtt_to_sensor_reading(mqtt_topic, payload) ==
  IF Len(mqtt_topic) < 4 THEN [r |-> "none", reading |-> NoReading]
  ELSE IF json_loads(payload) = "JSONDecodeError" THEN [r |-> "none", reading |-> NoReading]
  ELSE IF json_loads(payload) /= "ok" THEN [r |-> "raise", reading |-> NoReading]
  ELSE IF validate_payload(payload) = "PayloadValidationError"
       THEN [r |-> "none", reading |-> NoReading]
  ELSE IF validate_payload(payload) /= "ok" THEN [r |-> "raise", reading |-> NoReading]
  ELSE IF SensorReading_raises(payload) THEN [r |-> "raise", reading |-> NoReading]
  ELSE [r |-> "reading", reading |-> SensorReading(mqtt_topic, payload)]

\* publish: f"field.{data['field_id']}.device.{data['sensor_id']}"
routing_key(data) == <<"field", data.field_id, "device", data.sensor_id>>

\* the Message handed to exchange.publish
Published(data, topic) ==
  [routing_key |-> routing_key(data), body |-> data, persistent |-> TRUE]

\* ------------------------------------------------------------------------
\* The broker (rabbit-infrastructure/main.py, the connect() of the consumers)
\* Exchanges, queues and bindings are kept as lists in the order of their
\* declaration; broker.messages[q] is what queue q holds, oldest first;
\* broker.setup is the number of calls the running setup() has made and
\* broker.runs the number of setup() runs that have ended.
\* ------------------------------------------------------------------------
SENSORS_EXCHANGE == "sensor_data.topic"
ALERTS_EXCHANGE == "alerts.topic"
FIELD_QUEUE == "sensor_data.field.queue"
INTELLIGENT_QUEUE == "sensor_data.intelligent.queue"
\* the two server-named exclusive queues of the notification consumer
NOTIFY_READINGS == "amq.gen-readings"
NOTIFY_ALERTS == "amq.gen-alerts"
QueueNames == {FIELD_QUEUE, INTELLIGENT_QUEUE, NOTIFY_READINGS, NOTIFY_ALERTS}
FIELD_ROUTING_KEY == <<"field", "*", "device", "*">>
ALERTS_ROUTING_KEY == <<"alerts", "*">>

\* the most runs of setup() and the most messages a queue holds in the model
MaxRuns == 2
MaxQueued == 2

EmptyBroker == [exchanges |-> <<>>, queues |-> <<>>, bindings |-> <<>>,
                messages |-> [q \in QueueNames |-> <<>>], setup |-> 0, runs |-> 0]

\* the words of one part of a routing key: the text between its dots
split_dots(text) == IF text = "n.1" THEN <<"n", "1">> ELSE <<text>>

\* the words of a routing key given by the parts its f-string joins with dots
RECURSIVE key_words(_)
key_words(parts) ==
  IF parts = <<>> THEN <<>> ELSE split_dots(Head(parts)) \o key_words(Tail(parts))

\* a topic exchange compares binding key and routing key word by word: `*` is
\* exactly one word, `#` any number of words
RECURSIVE topic_match(_, _)
topic_match(pattern, key) ==
  IF pattern = <<>> THEN key = <<>>
  ELSE IF Head(pattern) = "#"
       THEN topic_match(Tail(pattern), key)
              \/ (key /= <<>> /\ topic_match(pattern, Tail(key)))
  ELSE /\ key /= <<>>
       /\ Head(pattern) = "*" \/ Head(pattern) = Head(key)
       /\ topic_match(Tail(pattern), Tail(key))

\* channel.declare_exchange(name, ExchangeType.TOPIC, durable=True)
declare_exchange(b, name) ==
  IF \E i \in 1..Len(b.exchanges) : b.exchanges[i].name = name THEN b
  ELSE [b EXCEPT !.exchanges = Append(@, [name |-> name, type |-> "topic", durable |-> TRUE])]

\* (fault) declaring a queue empties it
declare_queue_purged(b, name, durable) ==
  [b EXCEPT !.queues = IF \E i \in 1..Len(b.queues) : b.queues[i].name = name THEN @
                       ELSE Append(@, [name |-> name, durable |-> durable]),
            !.messages[name] = <<>>]
\* channel.declare_queue(name, ...): a queue that exists keeps its messages
declare_queue(b, name, durable) ==
  IF \E i \in 1..Len(b.queues) : b.queues[i].name = name THEN b
  ELSE [b EXCEPT !.queues = Append(@, [name |-> name, durable |-> durable])]

\* queue.bind(exchange, routing_key=key): binding twice is binding once
bind(b, queue, exchange, key) ==
  IF \E i \in 1..Len(b.bindings) : b.bindings[i] = <<queue, exchange, key>> THEN b
  ELSE [b EXCEPT !.bindings = Append(@, <<queue, exchange, key>>)]

\* the queues a message published to the exchange with the key is copied to
destinations(b, exchange, key) ==
  {q \in QueueNames : \E i \in 1..Len(b.bindings) :
     /\ b.bindings[i][1] = q
     /\ b.bindings[i][2] = exchange
     /\ topic_match(b.bindings[i][3], key_words(key))}

\* exchange.publish(message, routing_key): a message no binding matches is
\* dropped by the exchange
route(b, exchange, message) ==
  [b EXCEPT !.messages = [q \in QueueNames |->
      IF q \in destinations(b, exchange, message.routing_key)
      THEN Append(@[q], message) ELSE @[q]]]

\* setup(): the calls it awaits, in order
setup_calls ==
  <<[op |-> "declare_exchange", name |-> SENSORS_EXCHANGE, queue |-> "", key |-> <<>>],
    [op |-> "declare_exchange", name |-> ALERTS_EXCHANGE, queue |-> "", key |-> <<>>],
    [op |-> "declare_queue", name |-> "", queue |-> FIELD_QUEUE, key |-> <<>>],
    [op |-> "declare_queue", name |-> "", queue |-> INTELLIGENT_QUEUE, key |-> <<>>],
    [op |-> "bind", name |-> SENSORS_EXCHANGE, queue |-> FIELD_QUEUE, key |-> FIELD_ROUTING_KEY],
    [op |-> "bind", name |-> SENSORS_EXCHANGE, queue |-> INTELLIGENT_QUEUE,
     key |-> FIELD_ROUTING_KEY]>>

\* the effect of one call of setup() on the broker
setup_call(b, call) ==
  CASE call.op = "declare_exchange" -> declare_exchange(b, call.name)
    [] call.op = "declare_queue"    -> declare_queue(b, call.queue, TRUE)
    [] call.op = "bind"             -> bind(b, call.queue, call.name, call.key)

RECURSIVE setup_run(_, _)
setup_run(b, n) ==
  IF n = 0 THEN b ELSE setup_call(setup_run(b, n - 1), setup_calls[n])

\* RabbitMQNotificationConsumer.connect: both exchanges, two exclusive queues
\* and their bindings
notification_connect(b) ==
  LET b1 == declare_exchange(declare_exchange(b, SENSORS_EXCHANGE), ALERTS_EXCHANGE)
      b2 == bind(declare_queue(b1, NOTIFY_READINGS, FALSE), NOTIFY_READINGS,
                 SENSORS_EXCHANGE, FIELD_ROUTING_KEY)
  IN bind(declare_queue(b2, NOTIFY_ALERTS, FALSE), NOTIFY_ALERTS,
          ALERTS_EXCHANGE, ALERTS_ROUTING_KEY)

\* the broker once setup() has run and the notification consumer is connected
Deployed ==
  [notification_connect(setup_run(EmptyBroker, Len(setup_calls))) EXCEPT !.runs = 1]

\* setup(): its next call returns; after the last one the connection is closed
SetupStep ==
  /\ broker.runs < MaxRuns
  /\ LET b == setup_call(broker, setup_calls[broker.setup + 1])
     IN broker' = IF broker.setup + 1 = Len(setup_calls)
                  THEN [b EXCEPT !.setup = 0, !.runs = @ + 1]
                  ELSE [b EXCEPT !.setup = @ + 1]
  /\ UNCHANGED <<gwVars, fanVars, routes, web, bridge, ap>>

\* a consumer acknowledges the oldest message of a queue
Consume(q) ==
  /\ broker.messages[q] /= <<>>
  /\ broker' = [broker EXCEPT !.messages[q] = Tail(@)]
  /\ UNCHANGED <<gwVars, fanVars, routes, web, bridge, ap>>

\* no queue holds more than n messages
QueuesBelow(n) == \A q \in QueueNames : Len(broker.messages[q]) < n

\* ------------------------------------------------------------------------
\* intelligent-service: the Alert Producer (consumer.py, rule_strategy.py,
\* rules_service.py)
\* A rule is the dictionary get_rules_for_field builds, without the columns
\* that play no part; a reading is the decoded body, "bad" when
\* json.loads(message.body.decode()) raises. ap.cache is the value of the key
\* rules_list:<field of the reading>; ap.state is the state of the reading
\* in its queue ("ready", "unacked", "acked"); ap.alertsDb holds the
\* committed Alert rows and ap.published the messages the alerts exchange
\* confirmed, both as the alerts (rules) they were made from.
\* ------------------------------------------------------------------------
CACHE_TTL_RULES_LIST == 1800
\* "alerts.": the first word of the key f"{ROUTING_KEY_PREFIX}{alert['field']}"
ROUTING_KEY_PREFIX == "alerts"

\* the most rules of a rule list, and the most deliveries of one reading
MaxRules == 2
MaxDeliveries == 3

Conditions == {">", "<", "==", ">="}
SensorTypes == {"temp", "hum"}
Values == 0..2
Rule(field, sensor_type, condition, threshold) ==
  [field |-> field, sensor_type |-> sensor_type, condition |-> condition,
   threshold |-> threshold]
ApReadings == [body : {"json"}, field_id : {"f1", "n.1"}, sensor_type : SensorTypes,
               value : Values]
BadBody == [body |-> "bad", field_id |-> "", sensor_type |-> "", value |-> 0]
NoEntry == [present |-> FALSE, rules |-> <<>>, ttl |-> 0]
Entry(rules) == [present |-> TRUE, rules |-> rules, ttl |-> CACHE_TTL_RULES_LIST]

\* (fault) a condition that is not known counts as not violated
violated_rule_lenient(condition, sensor_value, threshold) ==
  CASE condition = ">"  -> IF sensor_value > threshold THEN "true" ELSE "false"
    [] condition = "<"  -> IF sensor_value < threshold THEN "true" ELSE "false"
    [] condition = "==" -> IF sensor_value = threshold THEN "true" ELSE "false"
    [] OTHER            -> "false"
\* violated_rule: "true", "false", or "raise" for its ValueError
violated_rule(condition, sensor_value, threshold) ==
  CASE condition = ">"  -> IF sensor_value > threshold THEN "true" ELSE "false"
    [] condition = "<"  -> IF sensor_value < threshold THEN "true" ELSE "false"
    [] condition = "==" -> IF sensor_value = threshold THEN "true" ELSE "false"
    [] OTHER            -> "raise"

\* RuleBasedStrategy.analyze, the loop over the rules from rule number i on,
\* with the alerts collected so far
RECURSIVE analyze_loop(_, _, _, _)
analyze_loop(rules, payload, i, alerts) ==
  IF i > Len(rules) THEN [r |-> "ok", alerts |-> alerts]
  ELSE IF rules[i].sensor_type /= payload.sensor_type
       THEN analyze_loop(rules, payload, i + 1, alerts)
  ELSE LET v == violated_rule(rules[i].condition, payload.value, rules[i].threshold)
       IN IF v = "raise" THEN [r |-> "raise", alerts |-> <<>>]
          ELSE analyze_loop(rules, payload, i + 1,
                            IF v = "true" THEN Append(alerts, rules[i]) ELSE alerts)

\* RuleBasedStrategy.analyze once get_rules_for_field has returned rules
analyze(rules, payload) == analyze_loop(rules, payload, 1, <<>>)

\* db.execute(select(Rule).where(Rule.field == field)) on the store
select_rules(store, field) == SelectSeq(store, LAMBDA rule : rule.field = field)

\* the Message made of an alert, and its routing key
alert_message(alert) ==
  [routing_key |-> <<ROUTING_KEY_PREFIX, alert.field>>, body |-> alert, persistent |-> FALSE]

IdleAp == [pc |-> "idle", redis |-> "client", cache |-> NoEntry, store |-> <<>>,
           msg |-> BadBody, state |-> "none", deliveries |-> 0,
           fetch |-> "none", source |-> "none", rules |-> <<>>,
           analysis |-> "none", alerts |-> <<>>, k |-> 0, pending |-> <<>>,
           committed |-> FALSE, rolledback |-> FALSE, error |-> "none",
           alertsDb |-> <<>>, published |-> <<>>, persisted |-> 0,
           wpc |-> "idle", after |-> FALSE]

\* (fault) the message is acknowledged although handling raised
process_exit_acked(a, error) ==
  [a EXCEPT !.pc = "idle", !.error = error, !.pending = <<>>, !.state = "acked"]
\* message.process(requeue=True): an exception leaves handle_message, the
\* session is closed and the message is rejected with requeue; without an
\* exception (error "none") the message is acknowledged
process_exit(a, error) ==
  [a EXCEPT !.pc = "idle", !.error = error, !.pending = <<>>,
            !.state = IF error = "none" THEN "acked" ELSE "ready"]

\* handle_message from the return of get_rules_for_field to its next await:
\* the analysis, and db.add of an Alert for every alert
evaluated(a, rules, source) ==
  LET b == [a EXCEPT !.fetch = "returned", !.source = source, !.rules = rules]
      result == analyze(rules, a.msg)
  IN IF result.r = "raise"
     THEN process_exit([b EXCEPT !.analysis = "raise"], "ValueError")
     ELSE IF result.alerts = <<>>
     THEN process_exit([b EXCEPT !.analysis = "ok"], "none")
     ELSE [b EXCEPT !.analysis = "ok", !.alerts = result.alerts,
                    !.pending = result.alerts, !.pc = "commit"]

\* the broker delivers the reading; handle_message runs to its first await
ApDeliver ==
  /\ ap.pc = "idle"
  /\ ap.state = "ready"
  /\ ap.deliveries < MaxDeliveries
  /\ LET a == [ap EXCEPT !.state = "unacked", !.deliveries = @ + 1, !.fetch = "none",
                         !.source = "none", !.rules = <<>>, !.analysis = "none",
                         !.alerts = <<>>, !.k = 0, !.pending = <<>>,
                         !.committed = FALSE, !.rolledback = FALSE, !.error = "none",
                         !.after = (ap.wpc = "deleted")]
     IN ap' = IF ap.msg.body = "bad" THEN process_exit(a, "JSONDecodeError")
              ELSE IF ap.redis = "client" THEN [a EXCEPT !.pc = "cache_get"]
              ELSE [a EXCEPT !.pc = "db_select"]
  /\ UNCHANGED <<gwVars, fanVars, routes, web, bridge, broker>>

\* get_rules_for_field: redis.get returns (ok) or raises
ApCacheGet(ok) ==
  /\ ap.pc = "cache_get"
  /\ ap' = IF ok /\ ap.cache.present
           THEN evaluated(ap, ap.cache.rules, "cache")
           ELSE [ap EXCEPT !.pc = "db_select"]
  /\ UNCHANGED <<gwVars, fanVars, routes, web, bridge, broker>>

\* get_rules_for_field: db.execute returns (ok) or raises; without a cache
\* client the name rules_dict_list is not bound at `return rules_dict_list`
ApDbSelect(ok) ==
  /\ ap.pc = "db_select"
  /\ ap' = IF ~ok THEN process_exit([ap EXCEPT !.fetch = "raised"], "SQLAlchemyError")
           ELSE IF ap.redis = "client"
           THEN [ap EXCEPT !.pc = "cache_set",
                           !.rules = select_rules(ap.store, ap.msg.field_id)]
           ELSE process_exit([ap EXCEPT !.fetch = "raised"], "UnboundLocalError")
  /\ UNCHANGED <<gwVars, fanVars, routes, web, bridge, broker>>

\* get_rules_for_field: redis.set returns (ok) or raises; the list is returned
ApCacheSet(ok) ==
  /\ ap.pc = "cache_set"
  /\ ap' = evaluated([ap EXCEPT !.cache = IF ok THEN Entry(ap.rules) ELSE @],
                     ap.rules, "store")
  /\ UNCHANGED <<gwVars, fanVars, routes, web, bridge, broker>>

\* the cached rule list of the field expires
ApCacheExpires ==
  /\ ap.cache.present
  /\ ap.pc = "idle"
  /\ ap' = [ap EXCEPT !.cache = NoEntry]
  /\ UNCHANGED <<gwVars, fanVars, routes, web, bridge, broker>>

\* (fault) a failed commit is printed and handling goes on
commit_failed_swallowed(a) ==
  [a EXCEPT !.pending = <<>>, !.rolledback = TRUE, !.pc = "publish", !.k = 1]
\* handle_message: db.commit() raised: rollback, print, raise
commit_failed(a) ==
  process_exit([a EXCEPT !.pending = <<>>, !.rolledback = TRUE], "SQLAlchemyError")

\* handle_message: db.commit() returns (ok) or raises
ApCommit(ok) ==
  /\ ap.pc = "commit"
  /\ ap' = IF ok
           THEN [ap EXCEPT !.alertsDb = @ \o ap.pending, !.pending = <<>>,
                           !.committed = TRUE, !.persisted = @ + 1,
                           !.pc = "publish", !.k = 1]
           ELSE commit_failed(ap)
  /\ UNCHANGED <<gwVars, fanVars, routes, web, bridge, broker>>

\* (fault) the publish loop skips every second alert
next_alert_skipping(k) == k + 2
\* handle_message: `for alert in alerts` goes on to the next alert
next_alert(k) == k + 1

\* handle_message: alerts_exchange.publish of the next alert returns (ok),
\* the broker having routed it, or raises
ApPublish(ok) ==
  /\ ap.pc = "publish"
  /\ IF ok
     THEN /\ broker' = route(broker, ALERTS_EXCHANGE, alert_message(ap.alerts[ap.k]))
          /\ LET a == [ap EXCEPT !.published = Append(@, ap.alerts[ap.k]),
                                 !.k = next_alert(@)]
             IN ap' = IF a.k > Len(ap.alerts) THEN process_exit(a, "none") ELSE a
     ELSE /\ ap' = process_exit(ap, "AMQPError")
          /\ UNCHANGED broker
  /\ UNCHANGED <<gwVars, fanVars, routes, web, bridge>>

\* the store without its i-th rule
without_rule(store, i) == SubSeq(store, 1, i - 1) \o SubSeq(store, i + 1, Len(store))

\* create_rule (intelligent-service/main.py): db.add(new_rule) and db.commit();
\* ap.wpc is the position of the request: "idle", "committed", then "deleted"
\* or "kept" as redis.delete returned or raised
RuleCreate(rule) ==
  /\ ap.wpc = "idle"
  /\ ap' = [ap EXCEPT !.store = Append(@, rule), !.wpc = "committed"]
  /\ UNCHANGED <<gwVars, fanVars, routes, web, bridge, broker>>

\* delete_rule: db.delete(rule) and db.commit()
RuleDelete(i) ==
  /\ ap.wpc = "idle"
  /\ i \in 1..Len(ap.store)
  /\ ap' = [ap EXCEPT !.store = without_rule(@, i), !.wpc = "committed"]
  /\ UNCHANGED <<gwVars, fanVars, routes, web, bridge, broker>>

\* create_rule / delete_rule after the commit: redis.delete of the key
\* rules_list:<field> returns (ok) or raises, which is printed
RuleCacheDelete(ok) ==
  /\ ap.wpc = "committed"
  /\ ap' = [ap EXCEPT !.cache = IF ok THEN NoEntry ELSE @,
                      !.wpc = IF ok THEN "deleted" ELSE "kept"]
  /\ UNCHANGED <<gwVars, fanVars, routes, web, bridge, broker>>

\* run_mqtt: await asyncio.sleep(5)
RECONNECT_DELAY == 5

\* the most sessions the model lets the bridge hold open
MaxSessions == 2

\* bridge.ready tells whose "ready" is retained on the status topic: "none",
\* the "current" session's, or a "previous" session's. bridge.parsed tells
\* whether mqtt_to_sensor_reading was called for bridge.msg.
IdleBridge == [pc |-> "start", channel |-> FALSE, why |-> "none", msg |-> NoMessage,
               reading |-> NoReading, attempts |-> 0, out |-> <<>>, last |-> "none",
               sessions |-> 0, step |-> 0, subscribed |-> FALSE, ready |-> "none",
               delay |-> 0, parsed |-> FALSE]

\* main: await publisher.connect(); its exceptions are printed and swallowed
PublisherConnect(ok) ==
  /\ bridge.pc = "start"
  /\ bridge' = [bridge EXCEPT !.pc = "connecting", !.channel = ok]
  /\ UNCHANGED <<gwVars, fanVars, routes, web, busVars>>

\* (fault) "ready" is published before the subscription
mqtt_loop_ready_first == <<"ready", "subscribe">>
\* mqtt_loop: the awaits between entering the session and the message loop
mqtt_loop_setup == <<"subscribe", "ready">>

\* async with Client(...): __aenter__ opens a session, __aexit__ closes it
open_session(n) == n + 1
\* (fault) the client is not closed when mqtt_loop is left
close_session_leak(n) == n
close_session(n) == n - 1

\* an exception leaves mqtt_loop: the client is closed, run_mqtt prints the
\* error and sleeps
leave_session(b, why) ==
  [b EXCEPT !.pc = "backoff", !.why = why, !.sessions = close_session(@),
            !.subscribed = FALSE, !.step = 0, !.delay = RECONNECT_DELAY,
            !.ready = IF @ = "current" THEN "previous" ELSE @]

\* mqtt_loop: the client connects
MqttConnects ==
  /\ bridge.pc = "connecting"
  /\ bridge.sessions < MaxSessions
  /\ bridge' = [bridge EXCEPT !.pc = "session", !.why = "none", !.step = 0,
                              !.sessions = open_session(@)]
  /\ UNCHANGED <<gwVars, fanVars, routes, web, busVars>>

\* mqtt_loop: connecting raises MqttError; run_mqtt sleeps
MqttConnectFails ==
  /\ bridge.pc = "connecting"
  /\ bridge' = [bridge EXCEPT !.pc = "backoff", !.why = "MqttError",
                              !.delay = RECONNECT_DELAY]
  /\ UNCHANGED <<gwVars, fanVars, routes, web, busVars>>

\* mqtt_loop: the next await of the session's start returns (ok) or raises
\* MqttError; after the last one the message loop begins
MqttSetup(ok) ==
  /\ bridge.pc = "session"
  /\ IF ~ok
     THEN bridge' = leave_session(bridge, "MqttError")
     ELSE LET call == mqtt_loop_setup[bridge.step + 1]
          IN bridge' = [bridge EXCEPT
                          !.step = @ + 1,
                          !.subscribed = @ \/ call = "subscribe",
                          !.ready = IF call = "ready" THEN "current" ELSE @,
                          !.pc = IF bridge.step + 1 = Len(mqtt_loop_setup)
                                 THEN "wait" ELSE @]
  /\ UNCHANGED <<gwVars, fanVars, routes, web, busVars>>

\* the session is lost while mqtt_loop waits for a message
MqttDisconnects ==
  /\ bridge.pc = "wait"
  /\ bridge' = leave_session(bridge, "MqttError")
  /\ UNCHANGED <<gwVars, fanVars, routes, web, busVars>>

\* run_mqtt: after asyncio.sleep(5) it calls mqtt_loop again
Reconnects ==
  /\ bridge.pc = "backoff"
  /\ bridge' = [bridge EXCEPT !.pc = "connecting", !.delay = 0]
  /\ UNCHANGED <<gwVars, fanVars, routes, web, busVars>>

\* (fault) only the status topic is skipped
skipped_status_only(message) == message.topic = SYSTEM_STATUS_TOPIC
\* mqtt_loop: the two tests that end an iteration with `continue`
skipped(message) == message.topic = SYSTEM_STATUS_TOPIC \/ message.retain

\* one iteration of `async for message in messages`, up to the next await
Receive(message) ==
  /\ bridge.pc = "wait"
  /\ LET b == [bridge EXCEPT !.msg = message, !.reading = NoReading, !.attempts = 0,
                             !.out = <<>>, !.why = "none",
                             !.parsed = ~skipped(message)]
         sensor_reading == mqtt_to_sensor_reading(message.topic, message.payload)
     IN IF skipped(message)
        THEN bridge' = [b EXCEPT !.last = "skipped"]
        ELSE IF sensor_reading.r = "none"
        THEN bridge' = [b EXCEPT !.last = "dropped"]
        ELSE IF sensor_reading.r = "raise"
        THEN bridge' = leave_session([b EXCEPT !.last = "aborted"], "ValueError")
        ELSE IF ~bridge.channel
        \* publish raises "Il publisher non e' connesso a RabbitMQ"
        THEN bridge' = [b EXCEPT !.reading = sensor_reading.reading, !.attempts = 1,
                                 !.last = "discarded"]
        ELSE bridge' = [b EXCEPT !.reading = sensor_reading.reading, !.attempts = 1,
                                 !.pc = "publishing", !.last = "none"]
  /\ UNCHANGED <<gwVars, fanVars, routes, web, busVars>>

\* exchange.publish returns (ok), the broker having routed the message, or
\* raises; mqtt_loop prints and goes on to the next message
PublishReturns(ok) ==
  /\ bridge.pc = "publishing"
  /\ IF ok
     THEN /\ bridge' = [bridge EXCEPT !.pc = "wait", !.last = "published",
                          !.out = Append(@, Published(bridge.reading, bridge.msg.topic))]
          /\ broker' = route(broker, SENSORS_EXCHANGE,
                             Published(bridge.reading, bridge.msg.topic))
     ELSE /\ bridge' = [bridge EXCEPT !.pc = "wait", !.last = "discarded"]
          /\ UNCHANGED broker
  /\ UNCHANGED <<gwVars, fanVars, routes, web, ap>>

\* ------------------------------------------------------------------------
\* Specifications of the notification service
\* ------------------------------------------------------------------------
FanoutInit ==
  /\ ws = [c \in Conns |-> NewWs]
  /\ connections = <<>>
  /\ bc = [h \in Handlers |-> IdleBc]
  /\ failedDone = {}

\* the gateway before any request; startup_event has created the Redis client
GatewayInit ==
  /\ redis = "client"
  /\ counter = 0
  /\ ttl = 0
  /\ admitted = 0
  /\ gw = [h \in Attempts |-> IdleGw]

\* the HTTP side of the gateway with the route table of config.py
WebInit ==
  /\ routes = ROUTE_MAP
  /\ web = IdleWeb

\* the bridge process when main() starts
BridgeInit == bridge = IdleBridge

\* a broker on which nothing has been declared, and the idle Alert Producer
BusInit ==
  /\ broker = EmptyBroker
  /\ ap = IdleAp

Init == FanoutInit /\ GatewayInit /\ WebInit /\ BridgeInit /\ BusInit

\* Admission of subscribers: the whole handshake, no broker traffic.
AdmitNext ==
  \/ \E c \in Conns, f \in Fields, t \in TokenKinds, r \in CacheResults : WsHandshake(c, f, t, r)
  \/ \E c \in Conns, r \in HttpResults, s \in BOOLEAN : WsValidate(c, r, s)
  \/ \E c \in Conns : ClientDrop(c)
  \/ \E c \in Conns, how \in {"disconnect", "error"} : WsReceiveEnds(c, how)

AdmitSpec == Init /\ [][AdmitNext]_vars

\* Fan-out: subscribers come and go while the two consumers broadcast.  The
\* registry only sees whether a handshake ends in connect or in a refusal, so
\* here the cached permission decides every handshake in one step.
CacheAnswers == {r \in CacheResults : cached_decision(r) /= "ask"}

FanoutNext ==
  \/ \E c \in Conns, f \in Fields, t \in TokenKinds, r \in CacheAnswers : WsHandshake(c, f, t, r)
  \/ \E c \in Conns : ClientDrop(c)
  \/ \E c \in Conns, how \in {"disconnect", "error"} : WsReceiveEnds(c, how)
  \/ \E h \in Handlers, pf \in PayloadFields : Deliver(h, pf)
  \/ \E h \in Handlers : HandleMessage(h)
  \/ \E h \in Handlers : SendReturns(h)

FanoutSpec == Init /\ [][FanoutNext]_vars

\* ------------------------------------------------------------------------
\* Properties of the notification service
\* ------------------------------------------------------------------------
\* the field a payload names: field_id in a reading, field in an alert
NamedField(envelope) ==
  IF envelope.type = "reading" THEN envelope.data.field_id ELSE envelope.data.field

\* C1: send_notification(F, m) attempts a send to exactly the connections that
\* are registered for F when the snapshot is taken: nothing outside that set
\* is attempted while the call runs (late subscribers, other fields), the call
\* ends only when the whole set has been attempted, and when F has no
\* subscriber the call returns at once, the registry is unchanged and the
\* message is acknowledged.
C1_SnapshotDelivery ==
  [][\A h \in Handlers :
       LET F == PayloadField(h, bc[h].payload) IN
       /\ (bc[h].pc = "got" /\ bc'[h].pc = "sending") =>
             /\ RegisteredFor(F) /= {}
             /\ bc'[h].snapAt = RegisteredFor(F)
       /\ bc'[h].pc = "sending" =>
             /\ bc'[h].cur \in bc'[h].attempted
             /\ bc'[h].attempted \subseteq bc'[h].snapAt
             /\ bc[h].pc = "sending" => bc'[h].snapAt = bc[h].snapAt
       /\ (bc[h].pc = "sending" /\ bc'[h].pc = "idle") =>
             bc[h].attempted = bc[h].snapAt
       /\ (bc[h].pc = "got" /\ F \in Fields /\ RegisteredFor(F) = {} /\ bc'[h] /= bc[h]) =>
             /\ bc'[h].pc = "idle"
             /\ bc'[h].result = "ack"
             /\ connections' = connections
    ]_vars

\* a broadcast has attempted its whole snapshot while a connection that
\* subscribed to the same field after the snapshot is registered
C1_Witness ==
  \E h \in Handlers :
    /\ bc[h].pc = "sending"
    /\ bc[h].todo = {}
    /\ bc[h].attempted = bc[h].snapAt
    /\ RegisteredFor(bc[h].field) \ bc[h].snapAt /= {}

\* C2: once a send_notification call is over, no connection whose send failed
\* in it is in the registry, and the snapshot of every later call contains
\* none of them.
C2_FailedPruned ==
  [][/\ Registered' \cap failedDone' = {}
     /\ \A h \in Handlers :
          (bc[h].pc = "got" /\ bc'[h].pc = "sending") =>
             (bc'[h].websockets \cap failedDone = {})
    ]_vars

\* a connection failed in a finished broadcast, is still open, and a later
\* broadcast to its field is running without it
C2_Witness ==
  \E h \in Handlers, c \in failedDone :
    /\ ws[c].pc = "open"
    /\ bc[h].pc = "sending"
    /\ bc[h].field = ws[c].field
    /\ c \notin bc[h].snapAt

\* C3: a connection is in the registry only while its endpoint is in the
\* receive loop, and then its token was decoded and the permission decision
\* was allow (cached "OK" or a 200 of the ownership endpoint); a connection
\* closed with a refusal code was never registered; a connection whose
\* endpoint has returned is not registered.
C3_RegisteredOnlyIfAllowed ==
  \A c \in Conns :
    /\ c \in Registered =>
          /\ ws[c].pc = "open"
          /\ ws[c].tok = "valid"
          /\ ws[c].admit \in {"OK", "200"}
          /\ \A f \in DOMAIN connections : c \in connections[f] => f = ws[c].field
    /\ ws[c].code \in {1008, 1011} => (ws[c].pc = "closed" /\ ~ws[c].wasReg)
    /\ ws[c].pc = "closed" => c \notin Registered

\* one connection admitted on a 200 answer is registered, another one was
\* refused, and a third case: a registered connection left and was removed
C3_Witness ==
  \E c, d \in Conns :
    /\ c \in Registered /\ ws[c].admit = "200"
    /\ ws[d].pc = "closed"
    /\ (ws[d].code = 1008 \/ ws[d].wasReg)

\* C32: a connection is refused only on its token, on a cached refusal or on
\* the answer of the ownership endpoint (a denial, an error status, no
\* answer); a failure of the permission cache alone, redis.get or redis.set
\* raising, refuses nobody
C32_CacheFailureHarmless ==
  \A c \in Conns :
    (ws[c].pc = "closed" /\ ws[c].code /= None) =>
       ws[c].basis \in {"token", "cached", "endpoint"}

\* The fan-out where the readings consumer may stay in a send_text for ever
\* (a slow client), while the steps of the alerts consumer are taken when
\* they can be.
FanoutFairSpec ==
  /\ Init
  /\ [][FanoutNext]_vars
  /\ WF_vars(HandleMessage("alert"))
  /\ WF_vars(SendReturns("alert"))

C35_NoEmptyEntry ==
  /\ \A f \in DOMAIN connections : connections[f] /= {}
  /\ \A f \in Fields : f \in DOMAIN connections <=> RegisteredFor(f) /= {}
  /\ \A c \in Conns : (ws[c].pc = "open" /\ c \notin failedDone) =>
        c \in RegisteredFor(ws[c].field)
  /\ Cardinality(DOMAIN connections) <= Cardinality({c \in Conns : ws[c].pc = "open"})

\* the entry of a field was deleted when the send to its last connection
\* failed, while the other field still has its entry
C35_Witness ==
  \E c \in failedDone, d \in Conns :
    /\ ws[c].pc = "open"
    /\ ws[c].field \notin DOMAIN connections
    /\ ws[d].pc = "open"
    /\ DOMAIN connections = {ws[d].field}

\* C36: while the readings consumer is in a send_text that does not return,
\* the alerts consumer takes its message, broadcasts it and settles it, and
\* a new connection can register and a registered one can leave.
C36_SlowSendBlocksNobody ==
  /\ (bc["alert"].pc = "got") ~> (bc["alert"].pc = "idle")
  /\ [](bc["reading"].pc = "sending" =>
          \A c \in Conns :
            /\ ws[c].pc = "new" => ENABLED WsHandshake(c, "f1", "valid", "OK")
            /\ ws[c].pc = "open" => ENABLED WsReceiveEnds(c, "error"))

\* the readings consumer is in a send_text and the alerts consumer has
\* settled a message it broadcast to the same field
C36_Witness ==
  /\ bc["reading"].pc = "sending"
  /\ bc["alert"].pc = "idle"
  /\ bc["alert"].result = "ack"
  /\ bc["reading"].field \in DOMAIN connections
  /\ failedDone /= {}

\* C37: the removal of the failed connections never raises: every broadcast
\* that has attempted its sends ends with the message acknowledged.
C37_PruneNeverRaises ==
  [][\A h \in Handlers :
       (bc[h].pc = "sending" /\ bc'[h].pc = "idle") => bc'[h].result = "ack"]_vars

\* C4: what a consumer pushes is an envelope of the type of its exchange
\* around the payload, and it goes to the connections registered for the
\* field the payload names, all of which registered for that very field.
C4_TypedEnvelopeToField ==
  \A h \in Handlers :
    bc[h].pc = "sending" =>
      /\ bc[h].envelope.type = h
      /\ bc[h].envelope.data = bc[h].payload
      /\ NamedField(bc[h].envelope) \in Fields
      /\ bc[h].attempted \cup bc[h].todo = bc[h].snapAt
      /\ \A c \in bc[h].attempted \cup bc[h].todo :
            /\ ws[c].wasReg
            /\ ws[c].pc = "open" => ws[c].field = NamedField(bc[h].envelope)

\* an alert is being pushed to the subscriber of its field while another
\* connection is registered for a different field only
C4_Witness ==
  /\ bc["alert"].pc = "sending"
  /\ \E c \in Registered : ws[c].field /= bc["alert"].field
  /\ \E c \in bc["alert"].attempted : ws[c].pc = "open"

\* ------------------------------------------------------------------------
\* Specifications of the gateway
\* ------------------------------------------------------------------------
\* One tunnel from the upgrade request to the close of the client connection,
\* with a Redis client that startup_event did or did not create and store
\* calls that may fail.
TunnelInit ==
  /\ FanoutInit
  /\ redis \in {"client", "none"}
  /\ counter = 0
  /\ ttl = 0
  /\ admitted = 0
  /\ gw = [h \in Attempts |-> IdleGw]
  /\ WebInit
  /\ BridgeInit
  /\ BusInit

TunnelNext ==
  \/ (counter < MaxUpgrades /\ RateLimitIncr(1))
  \/ RateLimitExpire(1)
  \/ RateLimitIncrFails(1)
  \/ RateLimitExpireFails(1)
  \/ Tick
  \/ \E req \in Requests : Validate(1, req)
  \/ UpstreamConnectFails(1)
  \/ UpstreamConnects(1)
  \/ ClientFrame(1)
  \/ ClientDisconnects(1)
  \/ BackendFrame(1)
  \/ \E frame \in PeerCloses : BackendCloses(1, frame)
  \/ \E t \in {"tgt", "cli"} : SendCompletes(1, t)
  \/ RunTarget(1)
  \/ RunClient(1)
  \/ RunMain(1)
  \/ Recycle(1)

TunnelSpec == TunnelInit /\ [][TunnelNext]_vars

\* Concurrent upgrade requests of one address against a healthy store; the
\* backend is down, so every admitted request ends at websockets.connect.
RateRequests == {GoodRequest, [GoodRequest EXCEPT !.token = <<>>]}

RateNext ==
  \/ \E h \in Attempts : RateLimitIncr(h)
  \/ \E h \in Attempts : RateLimitExpire(h)
  \/ Tick
  \/ \E h \in Attempts, req \in RateRequests : Validate(h, req)
  \/ \E h \in Attempts : UpstreamConnectFails(h)
  \/ \E h \in Attempts : Recycle(h)

RateSpec == Init /\ [][RateNext]_vars

\* ------------------------------------------------------------------------
\* Properties of the gateway
\* ------------------------------------------------------------------------
\* the request meets every condition of the upgrade
Eligible(req) ==
  /\ (req.path = P_ws_notifications \/ StartsWith(req.path, P_ws_notifications \o <<"/">>))
  /\ ~StartsWith(req.path, P_internal)
  /\ req.token = <<"valid">>
  /\ req.field /= ""

NoTask(g) == g.tgt = "none" /\ g.cli = "none" /\ g.up = "none" /\ ~g.everUp

\* C5: in the window of a key, the attempt that INCR numbers n passes the
\* check when n <= 20 and is closed with 1013 when n > 20, so never more than
\* 20 attempts of a window are admitted, whatever the interleaving.
C5_TwentyPerWindow ==
  [][/\ admitted' <= 20
     /\ \A h \in Attempts :
          (gw[h].rl = "none" /\ gw'[h].rl /= "none") =>
            LET n == IF gw[h].pc = "expire" THEN gw[h].count ELSE counter'
            IN /\ n >= 1
               /\ n <= 20 => (gw'[h].rl = "pass" /\ gw'[h].pc = "accepted")
               /\ n > 20 => (gw'[h].rl = "reject" /\ gw'[h].pc = "closed"
                             /\ gw'[h].code = 1013)
    ]_vars

\* the 21st attempt of a window has been rejected after 20 were admitted
C5_Witness ==
  /\ counter = 21
  /\ admitted = 20
  /\ \E h \in Attempts : gw[h].rl = "reject" /\ gw[h].code = 1013

\* C6: when the store is unavailable (no client, or INCR / EXPIRE raising) the
\* attempt is admitted: it is neither rejected nor aborted by the error.
C6_FailsOpen ==
  \A h \in Attempts :
    gw[h].rl \in {"skip", "error"} => (gw[h].pc /= "aborted" /\ gw[h].code /= 1013)

\* C38: whenever the key of an address exists and no request is between its
\* INCR and its EXPIRE, the key has an expiry of at most the window, so the
\* count of the address starts again at most one window after its first
\* counted attempt.
C38_KeyAlwaysExpires ==
  (counter > 0 /\ \A h \in Attempts : gw[h].pc /= "expire") => ttl \in 1..WINDOW

\* the frames task t has received, in the order of their arrival
Received(g, t) == [i \in 1..g.rx[t] |-> i]
Prefix(a, b) == Len(a) <= Len(b) /\ SubSeq(b, 1, Len(a)) = a

\* C40: in a tunnel the frames written to the backend are a prefix of the
\* frames received from the client, and the frames written to the client a
\* prefix of the frames received from the backend: nothing is duplicated,
\* reordered or made up.
C40_FramesInOrder ==
  \A h \in Attempts : \A t \in {"tgt", "cli"} :
    Prefix(gw[h].tx[t], Received(gw[h], t))

\* two frames have been relayed in each direction and the tunnel is open
C40_Witness ==
  \E h \in Attempts :
    /\ gw[h].pc = "relaying"
    /\ gw[h].tx.tgt = <<1, 2>>
    /\ gw[h].tx.cli = <<1, 2>>

\* C7: an upstream connection is requested or open, or a forwarding task
\* exists, only for a request that passed the rate-limit check and meets every
\* condition of the upgrade.
C7_UpstreamOnlyIfEligible ==
  \A h \in Attempts :
    (gw[h].pc \in {"connecting", "relaying"} \/ ~NoTask(gw[h])) =>
      /\ gw[h].rl \in {"pass", "skip"}
      /\ Eligible(gw[h].req)

\* a frame of the backend is being relayed to the client of an eligible request
C7_Witness ==
  \E h \in Attempts :
    /\ gw[h].pc = "relaying"
    /\ gw[h].cli = "send"
    /\ Eligible(gw[h].req)

C9_BackendCloseRelayed ==
  \A h \in Attempts :
    (gw[h].pc = "closed" /\ gw[h].first = "backend") =>
      (gw[h].code = gw[h].peer.code /\ gw[h].reason = gw[h].peer.reason)

\* C10: when the client was the first side to close, the client connection is
\* closed with the normal-closure code 1000.
C10_ClientFirstNormal ==
  \A h \in Attempts :
    (gw[h].pc = "closed" /\ gw[h].first = "client") => gw[h].code = 1000

\* The tunnel with the scheduling of the event loop: a coroutine that was
\* woken runs, and a pending send returns (the frame is written, or the
\* keepalive of the websockets client ends the connection).
TunnelFairSpec ==
  /\ TunnelSpec
  /\ WF_vars(RunTarget(1))
  /\ WF_vars(RunClient(1))
  /\ WF_vars(RunMain(1))
  /\ WF_vars(SendCompletes(1, "tgt"))

\* while relaying both forwarding tasks exist, and a task that ended has
\* woken main; after the tunnel no task runs and the upstream is not open
TunnelTasks(g) ==
  /\ g.pc = "relaying" =>
       /\ g.tgt \in {"recv", "send", "done"}
       /\ g.cli \in {"recv", "send", "done"}
       /\ (g.tgt = "done" \/ g.cli = "done") => "main" \in SeqToSet(g.runq)
  /\ (g.pc = "closed" /\ g.everUp) =>
       /\ g.tgt \in {"done", "cancelled"}
       /\ g.cli \in {"done", "cancelled"}
       /\ g.up = "closed"

\* C11: a relaying tunnel has exactly its two forwarding tasks; when one of
\* them ends the tunnel is closed, with the other task cancelled and the
\* upstream connection closed; a client that disconnects first leads to that.
C11_PairCancelled ==
  /\ [](\A h \in Attempts : TunnelTasks(gw[h]))
  /\ \A h \in Attempts :
       (gw[h].pc = "relaying" /\ (gw[h].tgt = "done" \/ gw[h].cli = "done"))
         ~> (gw[h].pc /= "relaying")
  /\ \A h \in Attempts :
       (gw[h].pc = "relaying" /\ gw[h].client = "gone") ~> (gw[h].pc /= "relaying")

\* the client disconnected first and the pending backend task was cancelled
C11_Witness ==
  \E h \in Attempts :
    /\ gw[h].pc = "closed"
    /\ gw[h].first = "client"
    /\ gw[h].tgt = "done"
    /\ gw[h].cli = "cancelled"
    /\ gw[h].up = "closed"

\* C12: when websockets.connect fails, the accepted client connection is
\* closed with 1011, which is not the normal-closure code, the handler
\* returns, and no forwarding task or upstream connection exists.
C12_ConnectFailure1011 ==
  [][\A h \in Attempts :
       (gw[h].pc = "connecting" /\ gw'[h].pc \notin {"connecting", "relaying"}) =>
         /\ gw'[h].pc = "closed"
         /\ gw'[h].code = 1011
         /\ gw'[h].code /= 1000
         /\ gw'[h].code /= gw[h].close.code
         /\ NoTask(gw'[h])
    ]_vars

\* an eligible request was closed with 1011 because the backend refused
C12_Witness ==
  \E h \in Attempts :
    /\ gw[h].pc = "closed"
    /\ gw[h].code = 1011
    /\ Eligible(gw[h].req)
    /\ NoTask(gw[h])

\* ------------------------------------------------------------------------
\* Specifications and properties of the HTTP side of the gateway
\* ------------------------------------------------------------------------
RoutedInit ==
  /\ FanoutInit
  /\ GatewayInit
  /\ routes \in RouteTables
  /\ web = IdleWeb
  /\ BridgeInit
  /\ BusInit

HttpNext ==
  \/ \E req \in HttpRequests, limiter \in {"pass", "limited"} : HttpRequest(req, limiter)
  \/ \E response \in Responses : BackendResponds(response)
  \/ BackendUnreachable
  \/ HttpDone

HttpSpec == RoutedInit /\ [][HttpNext]_vars

\* HTTP requests and WebSocket upgrades against every route table; no
\* rate-limit client, the backend of the WebSocket is down
InternalRequests == [path : WsPaths, token : {<<"valid">>, <<"forged">>}, field : {"f1"}]

InternalInit ==
  /\ FanoutInit
  /\ redis = "none"
  /\ counter = 0
  /\ ttl = 0
  /\ admitted = 0
  /\ gw = [h \in Attempts |-> IdleGw]
  /\ routes \in RouteTables
  /\ web = IdleWeb
  /\ BridgeInit
  /\ BusInit

InternalNext ==
  \/ \E req \in AuthRequests : HttpRequest(req, "pass")
  \/ BackendUnreachable
  \/ HttpDone
  \/ RateLimitIncr(1)
  \/ \E req \in InternalRequests : Validate(1, req)
  \/ UpstreamConnectFails(1)
  \/ Recycle(1)

InternalSpec == InternalInit /\ [][InternalNext]_vars

\* the header carries a bearer token with a good signature that has not expired
ValidBearer(auth) ==
  /\ Len(auth) = 2
  /\ auth[1] \in {"Bearer", "bearer", "BEARER"}
  /\ auth[2] = "valid"

\* path equals prefix, or continues it with a '/'
Match(path, prefix) ==
  \/ path = prefix
  \/ /\ Len(path) > Len(prefix)
     /\ \A i \in 1..Len(prefix) : path[i] = prefix[i]
     /\ path[Len(prefix) + 1] = "/"

\* service is what the longest matching route of the table names
Longest(path, service) ==
  IF \A r \in routes : ~Match(path, r[1])
  THEN service = "none"
  ELSE \E r \in routes :
         /\ Match(path, r[1])
         /\ \A q \in routes : Match(path, q[1]) => Len(q[1]) <= Len(r[1])
         /\ service = r[2]

C14_InternalNeverForwarded ==
  /\ StartsWith(web.req.path, P_internal) => (web.up = NoUpstream /\ web.pc /= "proxying")
  /\ \A h \in Attempts :
       StartsWith(gw[h].req.path, P_internal) =>
         (gw[h].pc \notin {"connecting", "relaying"} /\ NoTask(gw[h]))

\* a request with a valid token for a routed /internal path was refused
C14_Witness ==
  /\ web.pc = "responded"
  /\ StartsWith(web.req.path, P_internal)
  /\ ValidBearer(web.req.auth)
  /\ ~Longest(web.req.path, "none")
  /\ web.resp.status = 403
  /\ web.up = NoUpstream

\* C15: the backend request carries the method, query and body of the client
\* and its headers without host and content-length; the response carries the
\* status and body of the backend and its headers without content-encoding,
\* transfer-encoding and connection.
C15_ProxyFidelity ==
  /\ web.up /= NoUpstream =>
       /\ web.up.method = web.req.method
       /\ web.up.params = web.req.params
       /\ web.up.content = web.req.content
       /\ web.up.headers =
            {p \in request_headers(web.req) : p[1] /= "host" /\ p[1] /= "content-length"}
  /\ web.backend /= NoResponse =>
       /\ web.resp.status = web.backend.status
       /\ web.resp.content = web.backend.content
       /\ \A p \in web.backend.headers :
            lower_name(p[1]) \notin {"content-encoding", "transfer-encoding", "connection"}
              <=> <<lower_name(p[1]), p[2]>> \in web.resp.headers
       /\ \A p \in web.resp.headers : \E q \in web.backend.headers :
            lower_name(q[1]) = p[1] /\ q[2] = p[2]

\* C16: resolve_service returns the service of the longest route p with
\* path = p or path starting with p + "/", and nothing without such a route;
\* /loginx resolves to nothing.
C16_LongestPrefix ==
  /\ (web.pc /= "idle" /\ ~web.limited /\ ~StartsWith(web.req.path, P_ws)) =>
       /\ Longest(web.req.path, web.service)
       /\ web.req.path = P_login \o <<"x">> => web.service = "none"
  /\ \A h \in Attempts :
       gw[h].req /= NoRequest =>
         (gw[h].reason = "Servizio non supportato per WebSocket."
            <=> ~Longest(gw[h].req.path, "notifications"))

\* /login/x was resolved to the service of the nested route, not of /login
C16_Witness ==
  /\ web.pc /= "idle"
  /\ web.req.path = P_login \o <<"/", "x">>
  /\ <<P_login \o <<"/", "x">>, "field">> \in routes
  /\ web.service = "field"

\* ------------------------------------------------------------------------
\* Specification and properties of the ingestion bridge
\* ------------------------------------------------------------------------
BridgeNext ==
  \/ \E ok \in BOOLEAN : PublisherConnect(ok)
  \/ MqttConnects
  \/ MqttConnectFails
  \/ \E ok \in BOOLEAN : MqttSetup(ok)
  \/ MqttDisconnects
  \/ Reconnects
  \/ \E message \in Messages : Receive(message)
  \/ \E ok \in BOOLEAN : PublishReturns(ok)

BridgeSpec == Init /\ [][BridgeNext]_vars

\* The bridge with a broker that is up: the publisher is connected and every
\* publish is confirmed.
BridgeUpNext ==
  \/ PublisherConnect(TRUE)
  \/ MqttConnects
  \/ MqttConnectFails
  \/ \E ok \in BOOLEAN : MqttSetup(ok)
  \/ MqttDisconnects
  \/ Reconnects
  \/ \E message \in Messages : Receive(message)
  \/ PublishReturns(TRUE)

BridgeUpSpec == Init /\ [][BridgeUpNext]_vars

\* the bridge has finished with bridge.msg
Processed == bridge.msg /= NoMessage /\ bridge.pc /= "publishing"

\* a device message that is not retained, on a topic of at least 4 segments,
\* with a well-formed payload
ValidMessage(m) ==
  /\ ~m.retain
  /\ Len(m.topic) >= 4
  /\ m.payload.kind = "object"
  /\ m.payload.sensor_type = "text"
  /\ m.payload.unit = "text"
  /\ m.payload.value \in {"int", "float", "huge"}
  /\ m.payload.timestamp = "aware"

\* a device message with one of the defects of the list
Malformed(m) ==
  /\ ~m.retain
  /\ m.topic /= SYSTEM_STATUS_TOPIC
  /\ \/ Len(m.topic) < 4
     \/ m.payload.kind \in {"bad_utf8", "bad_json"}
     \/ /\ m.payload.kind = "object"
        /\ \/ "absent" \in {m.payload.sensor_type, m.payload.value, m.payload.unit,
                            m.payload.timestamp}
           \/ m.payload.sensor_type \in {"number", "blank"}
           \/ m.payload.unit \in {"number", "blank"}
           \/ m.payload.value \in {"bool", "text"}
           \/ m.payload.timestamp \in {"number", "blank", "not_iso", "lenient", "naive", "future"}

\* C17: for a valid device message the bridge publishes exactly one reading,
\* persistent, with routing key field.<field>.device.<sensor> taken from the
\* second and third segment of the topic, and the same ids in the body.
C17_ExactlyOneReading ==
  (Processed /\ ValidMessage(bridge.msg)) =>
    /\ Len(bridge.out) = 1
    /\ bridge.out[1].routing_key = <<"field", bridge.msg.topic[2], "device", bridge.msg.topic[3]>>
    /\ bridge.out[1].persistent
    /\ bridge.out[1].body.field_id = bridge.msg.topic[2]
    /\ bridge.out[1].body.sensor_id = bridge.msg.topic[3]

\* C18: for a malformed device message the bridge calls no publish and
\* publishes nothing, and the process goes on (it waits for messages, or
\* reconnects).
C18_MalformedDropped ==
  (bridge.msg /= NoMessage /\ Malformed(bridge.msg)) =>
    /\ bridge.attempts = 0
    /\ bridge.out = <<>>
    /\ bridge.pc \in {"wait", "backoff", "connecting", "session"}

\* C19: the session of mqtt_loop is left only because of an MQTT error, never
\* because of a message: after any message the loop waits for the next one
\* or publishes.
C19_MessageNeverAbortsLoop ==
  [][(bridge.pc = "wait" /\ bridge'.pc = "backoff") => bridge'.why = "MqttError"]_vars

\* C20: a validated reading is discarded only after at least two attempts to
\* publish it.
C20_RetryBeforeDiscard ==
  bridge.last = "discarded" => bridge.attempts >= 2

\* The sessions of the bridge, with the messages that matter to a session: a
\* reading, one whose value aborts the loop, undecodable bytes and text that
\* is not JSON, on every topic, retained or not. asyncio lets the sleep of
\* run_mqtt return.
SessionPayloads ==
  {GoodObject, [GoodObject EXCEPT !.value = "huge"]}
    \cup {p \in OtherPayloads : p.kind \in {"bad_utf8", "bad_json"}}
SessionMessages == [topic : Topics, retain : BOOLEAN, payload : SessionPayloads]

SessionNext ==
  \/ \E ok \in BOOLEAN : PublisherConnect(ok)
  \/ MqttConnects
  \/ MqttConnectFails
  \/ \E ok \in BOOLEAN : MqttSetup(ok)
  \/ MqttDisconnects
  \/ Reconnects
  \/ \E message \in SessionMessages : Receive(message)
  \/ \E ok \in BOOLEAN : PublishReturns(ok)

SessionSpec == Init /\ [][SessionNext]_vars /\ WF_vars(Reconnects)

\* C21: whenever the bridge is in its message loop, at startup and after
\* every reconnect, its session has published the retained "ready", and a
\* "ready" of the current session is on the status topic only if that session
\* has subscribed.
C21_ReadyAfterSubscribe ==
  /\ bridge.ready = "current" => bridge.subscribed
  /\ bridge.pc \in {"wait", "publishing"} => bridge.ready = "current"

\* after a message aborted a session, the next session is subscribed and ready
C21_Witness ==
  /\ bridge.pc = "wait"
  /\ bridge.last = "aborted"
  /\ bridge.ready = "current"
  /\ bridge.subscribed

\* C22: a message on the status topic, or with the retained flag, is neither
\* parsed nor published, whatever its payload, and the loop goes on.
C22_StatusAndRetainedSkipped ==
  (bridge.msg /= NoMessage /\ (bridge.msg.topic = SYSTEM_STATUS_TOPIC \/ bridge.msg.retain)) =>
    /\ ~bridge.parsed
    /\ bridge.attempts = 0
    /\ bridge.out = <<>>
    /\ bridge.last = "skipped"
    /\ bridge.pc /= "publishing"

\* a retained device message with a payload that would abort the loop was skipped
C22_Witness ==
  /\ bridge.pc = "wait"
  /\ bridge.msg.retain
  /\ bridge.msg.topic /= SYSTEM_STATUS_TOPIC
  /\ bridge.msg.payload.kind = "bad_utf8"
  /\ bridge.last = "skipped"

\* C23: after an error ended the session run_mqtt sleeps 5 seconds, with the
\* session closed, and then connects again, whatever the error and however
\* often; the bridge never holds more than one session.
C23_ReconnectForever ==
  /\ [](/\ bridge.sessions <= 1
        /\ bridge.pc \in {"start", "connecting", "backoff"} => bridge.sessions = 0
        /\ bridge.pc \in {"session", "wait", "publishing"} => bridge.sessions = 1
        /\ bridge.pc = "backoff" => bridge.delay = RECONNECT_DELAY)
  /\ [][bridge.pc = "backoff" => bridge'.pc = "connecting"]_vars
  /\ (bridge.pc = "backoff" ~> bridge.pc = "connecting")

\* a session is open again after a message aborted the one before
C23_Witness ==
  /\ bridge.pc = "session"
  /\ bridge.last = "aborted"
  /\ bridge.sessions = 1
  /\ bridge.ready = "previous"

\* ------------------------------------------------------------------------
\* Specifications and properties of the broker topology
\* ------------------------------------------------------------------------
\* a reading as the bridge publishes it for a device topic
reading_message(topic) == Published(SensorReading(topic, GoodObject), topic)

\* some publisher's exchange.publish of a reading is confirmed
PublishReading(topic) ==
  /\ QueuesBelow(MaxQueued)
  /\ broker' = route(broker, SENSORS_EXCHANGE, reading_message(topic))
  /\ UNCHANGED <<gwVars, fanVars, routes, web, bridge, ap>>

\* setup() run on a new broker and then again, while readings are published
\* and consumed
TopologyNext ==
  \/ SetupStep
  \/ \E topic \in {t \in Topics : Len(t) >= 4} : PublishReading(topic)
  \/ \E q \in QueueNames : Consume(q)

TopologySpec == Init /\ [][TopologyNext]_vars

\* the exchanges, queues and bindings of the broker
topology(b) == <<b.exchanges, b.queues, b.bindings>>

RouteTopics == {t \in Topics : Len(t) >= 4} \cup {<<"sensors", "n.1", "s1", "temp">>}
RouteMessages == [topic : RouteTopics, retain : {FALSE}, payload : {GoodObject}]

RouteInit ==
  /\ FanoutInit
  /\ GatewayInit
  /\ WebInit
  /\ BridgeInit
  /\ broker = Deployed
  /\ ap = IdleAp

RouteNext ==
  \/ PublisherConnect(TRUE)
  \/ MqttConnects
  \/ MqttSetup(TRUE)
  \/ \E message \in RouteMessages : QueuesBelow(MaxQueued) /\ Receive(message)
  \/ PublishReturns(TRUE)
  \/ \E q \in QueueNames : Consume(q)

RouteSpec == RouteInit /\ [][RouteNext]_vars

\* ------------------------------------------------------------------------
\* Specifications and properties of the Alert Producer
\* ------------------------------------------------------------------------
\* The producer with a fixed rule table, one of its rules with a condition
\* violated_rule does not know, and one reading in its queue; every await of
\* handle_message may raise.
ProducerRules == <<Rule("f1", "temp", ">", 0), Rule("f1", "temp", ">", 1),
                   Rule("n.1", "temp", "<", 1), Rule("f1", "hum", ">=", 1)>>

ProducerInit ==
  /\ FanoutInit
  /\ GatewayInit
  /\ WebInit
  /\ BridgeInit
  /\ broker = Deployed
  /\ \E msg \in ApReadings \cup {BadBody}, client \in {"client", "none"} :
     \E cache \in {NoEntry, Entry(select_rules(ProducerRules, msg.field_id))} :
       ap = [IdleAp EXCEPT !.store = ProducerRules, !.msg = msg, !.state = "ready",
                           !.redis = client, !.cache = cache]

ProducerNext ==
  \/ ApDeliver
  \/ \E ok \in BOOLEAN : ApCacheGet(ok)
  \/ \E ok \in BOOLEAN : ApDbSelect(ok)
  \/ \E ok \in BOOLEAN : ApCacheSet(ok)
  \/ ApCacheExpires
  \/ \E ok \in BOOLEAN : ApCommit(ok)
  \/ \E ok \in BOOLEAN : ApPublish(ok)

ProducerSpec == ProducerInit /\ [][ProducerNext]_vars

\* The producer while the database and the broker are reachable: the query,
\* the commit and every publish return; only the cache may fail. A step that
\* can be taken is taken.
HealthyNext ==
  \/ ApDeliver
  \/ \E ok \in BOOLEAN : ApCacheGet(ok)
  \/ ApDbSelect(TRUE)
  \/ \E ok \in BOOLEAN : ApCacheSet(ok)
  \/ ApCacheExpires
  \/ ApCommit(TRUE)
  \/ ApPublish(TRUE)

HealthySpec == ProducerInit /\ [][HealthyNext]_vars /\ WF_vars(HealthyNext)

\* C39: while the database and the broker are reachable no delivery of a
\* reading ends with the reading requeued, and every reading in the queue of
\* the producer is eventually acknowledged, whatever its payload and the
\* rules of its field.
C39_EventuallyAcked ==
  /\ [][ap.state = "unacked" => ap'.state /= "ready"]_vars
  /\ (ap.state = "ready") ~> (ap.state = "acked")

\* how often alert occurs in a list of alerts
Count(alerts, alert) == Cardinality({i \in 1..Len(alerts) : alerts[i] = alert})

\* the comparison a condition stands for
Holds(condition, value, threshold) ==
  \/ condition = ">" /\ value > threshold
  \/ condition = "<" /\ value < threshold
  \/ condition = "==" /\ value = threshold

\* the rules of a list that a reading violates
Violated(rules, reading) ==
  {rules[i] : i \in {j \in 1..Len(rules) :
      /\ rules[j].sensor_type = reading.sensor_type
      /\ Holds(rules[j].condition, reading.value, rules[j].threshold)}}

\* C26: an alert is published only in a delivery whose commit succeeded, and
\* when it is already persisted; a failed commit publishes nothing, rolls
\* back, persists nothing and requeues the reading.
C26_PublishAfterCommit ==
  /\ [][ap'.published /= ap.published =>
          /\ ap.committed
          /\ Count(ap.alertsDb, ap.alerts[ap.k]) >= 1]_vars
  /\ [][(ap.pc = "commit" /\ ~ap'.committed) =>
          /\ ap'.published = ap.published
          /\ ap'.alertsDb = ap.alertsDb
          /\ ap'.rolledback
          /\ ap'.pc = "idle"
          /\ ap'.state = "ready"]_vars
  /\ [](ap.pc = "publish" => ap.committed /\ ~ap.rolledback)

\* the commit of the first delivery failed, the second delivery published
C26_Witness ==
  /\ ap.deliveries = 2
  /\ ap.persisted = 1
  /\ Len(ap.alertsDb) = 2
  /\ Len(ap.published) = 2
  /\ ap.state = "acked"

\* C27: every exception leaves the reading requeued; it is acknowledged only
\* by a delivery that ended without error, and then every rule of its field
\* that it violates has an Alert row and a published alert.
C27_RequeuedOnError ==
  /\ [][(ap.state = "unacked" /\ ap'.error /= "none") =>
          ap'.state = "ready" /\ ap'.pc = "idle"]_vars
  /\ [][(ap.state = "unacked" /\ ap'.state = "acked") => ap'.error = "none"]_vars
  /\ [](ap.state = "acked" =>
          /\ ap.error = "none"
          /\ ap.analysis = "ok"
          /\ \A alert \in Violated(select_rules(ap.store, ap.msg.field_id), ap.msg) :
               Count(ap.alertsDb, alert) >= 1 /\ Count(ap.published, alert) >= 1)

\* acknowledged by the third delivery, after two that failed
C27_Witness ==
  /\ ap.state = "acked"
  /\ ap.deliveries = 3
  /\ Len(ap.alerts) = 2
  /\ ap.persisted = 1

\* C28 (as claimed): no alert of the reading is persisted or published more
\* than once, and each exactly once when the reading is acknowledged.
C28_ExactlyOnce ==
  \A alert \in Violated(select_rules(ap.store, ap.msg.field_id), ap.msg) :
    /\ Count(ap.alertsDb, alert) <= 1
    /\ Count(ap.published, alert) <= 1
    /\ ap.state = "acked" => Count(ap.alertsDb, alert) = 1 /\ Count(ap.published, alert) = 1

\* C28 (amended): each delivery whose commit succeeds persists one Alert row
\* per violated rule and publishes each alert at most once; an acknowledged
\* reading has each alert persisted and published at least once, and exactly
\* once when only one delivery committed.
C28_AtLeastOnce ==
  \A alert \in Violated(select_rules(ap.store, ap.msg.field_id), ap.msg) :
    /\ Count(ap.alertsDb, alert) = ap.persisted
    /\ Count(ap.published, alert) <= Count(ap.alertsDb, alert)
    /\ ap.state = "acked" => Count(ap.alertsDb, alert) >= 1 /\ Count(ap.published, alert) >= 1
    /\ (ap.state = "acked" /\ ap.persisted = 1) => Count(ap.published, alert) = 1

\* a publish failed after the commit, and the redelivery doubled the alerts
C28_Witness ==
  /\ ap.state = "acked"
  /\ ap.persisted = 2
  /\ Len(ap.alertsDb) = 4
  /\ Len(ap.published) = 3

\* The rule lookup and the evaluation for every rule table of at most
\* MaxRules rules, every reading of field f1, with and without a cache
\* client, the cache empty or holding a list; commit and publish succeed.
RuleUniverse ==
  {Rule("f1", t, c, 1) : t \in SensorTypes, c \in Conditions} \cup {Rule("f2", "temp", ">", 1)}
RuleLists == UNION {[1..n -> RuleUniverse] : n \in 0..MaxRules}
CachedLists == {<<>>, <<Rule("f1", "temp", "<", 1)>>, <<Rule("f1", "hum", ">=", 1)>>}

RulesInit ==
  /\ FanoutInit
  /\ GatewayInit
  /\ WebInit
  /\ BridgeInit
  /\ broker = Deployed
  /\ \E store \in RuleLists, msg \in {m \in ApReadings : m.field_id = "f1"},
        client \in {"client", "none"},
        cache \in {NoEntry} \cup {Entry(rules) : rules \in CachedLists} :
       ap = [IdleAp EXCEPT !.store = store, !.msg = msg, !.state = "ready",
                           !.redis = client, !.cache = cache]

RulesNext ==
  \/ ApDeliver
  \/ \E ok \in BOOLEAN : ApCacheGet(ok)
  \/ \E ok \in BOOLEAN : ApDbSelect(ok)
  \/ \E ok \in BOOLEAN : ApCacheSet(ok)
  \/ ApCacheExpires
  \/ ApCommit(TRUE)
  \/ ApPublish(TRUE)

RulesSpec == RulesInit /\ [][RulesNext]_vars

\* a rule of the reading's sensor type with a condition other than >, <, ==
BadRule(rules, reading) ==
  \E i \in 1..Len(rules) :
    /\ rules[i].sensor_type = reading.sensor_type
    /\ rules[i].condition \notin {">", "<", "=="}

\* C29: the analysis raises exactly when a rule of the reading's sensor type
\* has an unknown condition; otherwise it returns, in the order of the rule
\* list, exactly the rules of the reading's sensor type whose comparison
\* holds, all of them rules of the reading's field.
C29_AnalyzeExact ==
  ap.analysis /= "none" =>
    /\ ap.analysis = "raise" <=> BadRule(ap.rules, ap.msg)
    /\ ap.analysis = "ok" =>
         /\ ap.alerts = SelectSeq(ap.rules, LAMBDA rule :
                          /\ rule.sensor_type = ap.msg.sensor_type
                          /\ Holds(rule.condition, ap.msg.value, rule.threshold))
         /\ \A i \in 1..Len(ap.alerts) : ap.alerts[i].field = ap.msg.field_id

\* of two rules of the reading's sensor type one is violated and returned
C29_Witness ==
  /\ ap.analysis = "ok"
  /\ Len(ap.rules) = 2
  /\ ap.rules[1].sensor_type = ap.msg.sensor_type
  /\ ap.rules[2].sensor_type = ap.msg.sensor_type
  /\ ap.rules[1].condition = "<"
  /\ ap.rules[2].condition = "=="
  /\ ap.alerts = <<ap.rules[2]>>

\* C30: get_rules_for_field returns the cached list when the cache holds an
\* entry and can be read, otherwise the rules of the field from the store,
\* which a usable cache then holds with a TTL of 30 minutes; it raises only
\* when the store does.
C30_CacheAside ==
  /\ [][(ap.pc = "cache_get" /\ ap.cache.present /\ ap'.pc /= "db_select") =>
          ap'.fetch = "returned" /\ ap'.source = "cache" /\ ap'.rules = ap.cache.rules]_vars
  /\ [][(ap.pc = "cache_set" /\ ap'.cache /= ap.cache) =>
          ap'.cache = [present |-> TRUE, rules |-> select_rules(ap.store, ap.msg.field_id),
                       ttl |-> 1800]]_vars
  /\ []((ap.fetch = "returned" /\ ap.source = "store") =>
          ap.rules = select_rules(ap.store, ap.msg.field_id))
  /\ [](ap.fetch = "raised" => ap.error = "SQLAlchemyError")

\* A rule of field f1 is created or deleted while a reading of f1 is being
\* handled: the request commits and deletes the cache entry at any point of
\* get_rules_for_field.
InvalidationRules == <<Rule("f1", "temp", ">", 0), Rule("f1", "hum", "<", 1)>>
NewRules == {Rule("f1", "temp", "<", 2), Rule("f1", "hum", "==", 1)}

InvalidationInit ==
  /\ FanoutInit
  /\ GatewayInit
  /\ WebInit
  /\ BridgeInit
  /\ broker = Deployed
  /\ \E msg \in {m \in ApReadings : m.field_id = "f1"},
        cache \in {NoEntry, Entry(select_rules(InvalidationRules, "f1"))} :
       ap = [IdleAp EXCEPT !.store = InvalidationRules, !.msg = msg, !.state = "ready",
                           !.cache = cache]

InvalidationNext ==
  \/ ApDeliver
  \/ \E ok \in BOOLEAN : ApCacheGet(ok)
  \/ \E ok \in BOOLEAN : ApDbSelect(ok)
  \/ \E ok \in BOOLEAN : ApCacheSet(ok)
  \/ ApCommit(TRUE)
  \/ ApPublish(TRUE)
  \/ \E rule \in NewRules : RuleCreate(rule)
  \/ \E i \in 1..Len(InvalidationRules) : RuleDelete(i)
  \/ \E ok \in BOOLEAN : RuleCacheDelete(ok)

InvalidationSpec == InvalidationInit /\ [][InvalidationNext]_vars

\* C31: once create_rule or delete_rule has committed and deleted the cache
\* entry of the field, the cache holds no rule list of the field other than
\* the store's, and a reading delivered afterwards is evaluated against the
\* rules of the store.
C31_NoStaleRules ==
  ap.wpc = "deleted" =>
    /\ ap.cache.present => ap.cache.rules = select_rules(ap.store, ap.msg.field_id)
    /\ (ap.after /\ ap.fetch = "returned") =>
          ap.rules = select_rules(ap.store, ap.msg.field_id)

\* ------------------------------------------------------------------------
\* The pipeline: bridge, broker, Alert Producer and notification consumer
\* ------------------------------------------------------------------------
\* the queue of the notification consumer each callback consumes
QueueOf(h) == IF h = "reading" THEN NOTIFY_READINGS ELSE NOTIFY_ALERTS

\* the broker delivers the oldest message of the queue of h to its callback
QueueDeliver(h) ==
  /\ bc[h].pc = "idle"
  /\ broker.messages[QueueOf(h)] /= <<>>
  /\ LET body == Head(broker.messages[QueueOf(h)]).body
     IN bc' = [bc EXCEPT ![h] =
                 [IdleBc EXCEPT !.pc = "got",
                                !.payload = Payload(h, IF h = "reading" THEN body.field_id
                                                       ELSE body.field)]]
  /\ broker' = [broker EXCEPT !.messages[QueueOf(h)] = Tail(@)]
  /\ UNCHANGED <<ws, connections, failedDone, gwVars, routes, web, bridge, ap>>

\* the oldest reading of the rule-evaluation queue becomes the message of the
\* producer; sensor_type and value are what its body says, and the histories
\* of the producer begin anew
ApConsume(sensor_type, value) ==
  /\ ap.pc = "idle"
  /\ ap.state \in {"none", "acked"}
  /\ broker.messages[INTELLIGENT_QUEUE] /= <<>>
  /\ LET body == Head(broker.messages[INTELLIGENT_QUEUE]).body
     IN ap' = [IdleAp EXCEPT !.redis = ap.redis, !.cache = ap.cache, !.store = ap.store,
                             !.msg = [body |-> "json", field_id |-> body.field_id,
                                      sensor_type |-> sensor_type, value |-> value],
                             !.state = "ready"]
  /\ broker' = [broker EXCEPT !.messages[INTELLIGENT_QUEUE] = Tail(@)]
  /\ UNCHANGED <<gwVars, fanVars, routes, web, bridge>>

\* A device publishes valid readings of field f1 and of field n.1; one
\* connection is subscribed to each field and stays; each field has a rule
\* on temp that a reading of value 1 violates. Every service runs: no call
\* fails, and every step that can be taken is taken.
PipelineRules == <<Rule("f1", "temp", ">", 0), Rule("n.1", "temp", ">", 0)>>
Subscription == [c \in Conns |-> IF c = 1 THEN "f1" ELSE "n.1"]

PipelineInit ==
  /\ ws = [c \in Conns |-> [NewWs EXCEPT !.pc = "open", !.field = Subscription[c],
                                          !.tok = "valid", !.admit = "OK", !.wasReg = TRUE]]
  /\ connections = [f \in {Subscription[c] : c \in Conns} |->
                      {c \in Conns : Subscription[c] = f}]
  /\ bc = [h \in Handlers |-> IdleBc]
  /\ failedDone = {}
  /\ GatewayInit
  /\ WebInit
  /\ BridgeInit
  /\ broker = Deployed
  /\ ap = [IdleAp EXCEPT !.store = PipelineRules]

PipelineNext ==
  \/ PublisherConnect(TRUE)
  \/ MqttConnects
  \/ MqttSetup(TRUE)
  \/ \E message \in RouteMessages : QueuesBelow(MaxQueued) /\ Receive(message)
  \/ PublishReturns(TRUE)
  \/ Consume(FIELD_QUEUE)
  \/ \E value \in {0, 1} : ApConsume("temp", value)
  \/ ApDeliver
  \/ ApCacheGet(TRUE)
  \/ ApDbSelect(TRUE)
  \/ ApCacheSet(TRUE)
  \/ ApCommit(TRUE)
  \/ ApPublish(TRUE)
  \/ \E h \in Handlers : QueueDeliver(h)
  \/ \E h \in Handlers : HandleMessage(h)
  \/ \E h \in Handlers : SendReturns(h)

PipelineSpec ==
  /\ PipelineInit
  /\ [][PipelineNext]_vars
  /\ WF_vars(PublishReturns(TRUE))
  /\ WF_vars(\E value \in {0, 1} : ApConsume("temp", value))
  /\ WF_vars(ApDeliver \/ ApCacheGet(TRUE) \/ ApDbSelect(TRUE) \/ ApCacheSet(TRUE)
               \/ ApCommit(TRUE) \/ ApPublish(TRUE))
  /\ \A h \in Handlers :
       WF_vars(QueueDeliver(h)) /\ WF_vars(HandleMessage(h)) /\ WF_vars(SendReturns(h))

\* the connections subscribed to field F have all seen an envelope of the type
Seen(F, type) == \A c \in Conns : Subscription[c] = F => type \in SeqToSet(ws[c].inbox)

\* C33: every connection subscribed to the field of a reading the bridge has
\* taken from a device topic eventually receives a reading envelope, and when
\* the reading violates a rule of the field also an alert envelope, which no
\* connection receives before its first reading envelope.
C33_ReadingThenAlert ==
  /\ [](\A c \in Conns : "alert" \in SeqToSet(ws[c].inbox) => ws[c].inbox[1] = "reading")
  /\ \A F \in {"f1", "n.1"} :
       /\ (bridge.pc = "publishing" /\ bridge.reading.field_id = F) ~> Seen(F, "reading")
       /\ (ap.alerts /= <<>> /\ ap.msg.field_id = F) ~> Seen(F, "alert")

\* C24: every reading the bridge publishes is appended to the persistence,
\* the rule-evaluation and the notification queue, its routing key
\* field.<field_id>.device.<sensor_id> matching their binding
\* field.*.device.*; every alert the producer publishes is appended to the
\* alerts queue of the notification consumer, its key alerts.<field>
\* matching alerts.*
C24_EveryKeyRouted ==
  /\ [][(bridge.pc = "publishing" /\ bridge'.last = "published") =>
          /\ topic_match(FIELD_ROUTING_KEY, key_words(routing_key(bridge.reading)))
          /\ \A q \in {FIELD_QUEUE, INTELLIGENT_QUEUE, NOTIFY_READINGS} :
               broker'.messages[q] =
                 Append(broker.messages[q], Published(bridge.reading, bridge.msg.topic))]_vars
  /\ [][ap'.published /= ap.published =>
          /\ topic_match(ALERTS_ROUTING_KEY,
                         key_words(alert_message(ap.alerts[ap.k]).routing_key))
          /\ broker'.messages[NOTIFY_ALERTS] =
               Append(broker.messages[NOTIFY_ALERTS], alert_message(ap.alerts[ap.k]))]_vars

====
